---- MODULE Spec2Model ----
(***************************************************************************)
(* A model of flamego/session: the in-memory session store (a binary       *)
(* min-heap of sessions ordered by last access plus an index by session    *)
(* ID), the persistent session stores (Postgres, MySQL, SQLite, MongoDB,   *)
(* Redis, file system) and the session manager.                            *)
(*                                                                         *)
(* Times are natural numbers of clock ticks.  Every Initer raises a         *)
(* lifetime below one second to an hour, so a lifetime is at least one     *)
(* second: the persistent stores run at TicksPerSecond ticks to the second *)
(* with a lifetime of a second or more, the in-memory store at one tick to *)
(* its unit of time.                                                       *)
(* Heap positions are 0-based as in the Go code; the TLA+ sequence holding *)
(* the heap is 1-based, so heap position i is element i + 1.               *)
(* Session IDs are strings, modelled as sequences of byte values.          *)
(***************************************************************************)
EXTENDS Integers, Sequences, FiniteSets, TLC

\* ---------------------------------------------------------------- bounds
MemMaxTime == 2     \* the clock of the in-memory store takes 0..MemMaxTime
MemLifetime == 1    \* MemoryConfig.Lifetime, in ticks
MaxObjs == 3        \* memorySession objects allocated in one run
DBMaxTime == 4      \* the clock of a persistent store takes 0..DBMaxTime
DBLifetime == 2     \* Config.Lifetime of a persistent store, in ticks
TicksPerSecond == 2 \* clock resolution of a persistent store
NumProcs == 2       \* concurrent callers of the in-memory store

Procs == 1..NumProcs

\* Session IDs: "aa1", "aa2", "ab3".
SidA == <<97, 97, 49>>
SidB == <<97, 97, 50>>
SidC == <<97, 98, 51>>
MemSIDs == {SidA, SidB, SidC}
DBSIDs == {SidA, SidC}
\* "a": shorter than the file store's minimum length.
ShortSid == <<97>>

\* Session data: a Go map; a key that is absent reads as nil.
Nil == "nil"
flashKey == "flamego::session::flash"
UserKeys == {"name"}
Keys == UserKeys \cup {flashKey}
Vals == {"flamego"}
EmptyData == [k \in Keys |-> Nil]
DataVals == [Keys -> Vals \cup {Nil}]
\* Data without a flash value.
UserData == {d \in DataVals : d[flashKey] = Nil}

MemoryKind == "memory"
DBKinds == {"postgres", "mysql", "sqlite", "mongo", "redis", "file"}

VARIABLES
  now,      \* the value nowFunc() returns
  backend,  \* which Store implementation is in use
  heap,     \* memoryStore.heap: sequence of memorySession object ids
  index,    \* memoryStore.index: map from session ID to object id
  sess,     \* the memorySession objects the store references, by object id
  nObj,     \* number of memorySession objects allocated so far
  rows,     \* persistent store: map from key to [data, stamp]
  dirs,     \* file store: the directories that exist under rootDir
  fresh,    \* per key: when and how its expiry horizon was last set
  issued,   \* per session ID: the object the creating Read returned
  last,     \* the store operation completed by the latest step
  lock,     \* memoryStore.lock: 0 when free, else the process holding it
  pc,       \* per process: its position inside Read
  rd,       \* per process: the session ID of its Read
  gcpc,     \* the GC call: "idle", "select" or "body"
  ctxDone,  \* whether the context of the GC call is cancelled
  req,      \* the request the middleware is serving, if any
  jar,      \* the session IDs responses have written to the client
  ghost,    \* per session ID written to the client: what its holder expects
  sch       \* the background GC goroutine started by startGC

vars == <<now, backend, heap, index, sess, nObj, rows, dirs, fresh, issued, last,
          lock, pc, rd, gcpc, ctxDone, req, jar, ghost, sch>>

memVars == <<heap, index, sess, nObj>>
dbVars == <<rows, dirs, fresh>>
concVars == <<lock, pc, rd, gcpc, ctxDone>>
mgrVars == <<req, jar, ghost, sch>>

\* Go maps: m[k] = v and delete(m, k).
MapPut(m, k, v) == [x \in DOMAIN m \cup {k} |-> IF x = k THEN v ELSE m[x]]
MapDelete(m, k) == [x \in DOMAIN m \ {k} |-> m[x]]

\* --------------------------------------------------------- memorySession
\* BaseSession: the session ID, the data and the changed flag.
NewBaseSession(sid) ==
  [sid |-> sid, data |-> EmptyData, changed |-> FALSE]

NewBaseSessionWithData(sid, data) ==
  [sid |-> sid, data |-> data, changed |-> FALSE]

newMemorySession(sid) ==
  [sid |-> sid, data |-> EmptyData, changed |-> FALSE, lastAccessedAt |-> 0, index |-> 0]

SetLastAccessedAt_none(s, o, t) == s

SetLastAccessedAt(s, o, t) ==
  [s EXCEPT !.sess[o].lastAccessedAt = t]

\* ----------------------------------------------------------- memoryStore
\* A store value s is a record [heap, index, sess, nObj, lifetime] (lifetime
\* is memoryStore.lifetime, set at construction).  Object ids stand
\* for pointers: sess maps the id of every session the store references to
\* its fields, and a session the store has dropped leaves sess.
Store == [heap |-> heap, index |-> index, sess |-> sess, nObj |-> nObj,
          lifetime |-> MemLifetime]

StoreLen(s) == Len(s.heap)

Less(s, i, j) ==
  s.sess[s.heap[i + 1]].lastAccessedAt < s.sess[s.heap[j + 1]].lastAccessedAt

Swap_noIndex(s, i, j) ==
  [s EXCEPT !.heap = [s.heap EXCEPT ![i + 1] = s.heap[j + 1], ![j + 1] = s.heap[i + 1]]]

Swap(s, i, j) ==
  LET h == [s.heap EXCEPT ![i + 1] = s.heap[j + 1], ![j + 1] = s.heap[i + 1]]
      s1 == [s.sess EXCEPT ![h[i + 1]].index = i]
      s2 == [s1 EXCEPT ![h[j + 1]].index = j]
  IN [s EXCEPT !.heap = h, !.sess = s2]

Push(s, x) ==
  LET n == StoreLen(s)
  IN [s EXCEPT !.heap = Append(s.heap, x),
                !.index = MapPut(s.index, s.sess[x].sid, x),
                !.sess[x].index = n]

Pop(s) ==
  LET n == StoreLen(s)
      x == s.heap[n]
  IN [s EXCEPT !.heap = SubSeq(s.heap, 1, n - 1),
                !.index = MapDelete(s.index, s.sess[x].sid),
                !.sess = MapDelete(s.sess, x)]

\* --------------------------------------------------- container/heap calls
\* Go integer division truncates toward zero.
GoDiv(a, b) == IF a >= 0 THEN a \div b ELSE -((-a) \div b)

RECURSIVE up(_, _)
up(s, j) ==
  LET i == GoDiv(j - 1, 2)
  IN IF i = j \/ ~Less(s, j, i) THEN s ELSE up(Swap(s, i, j), i)

RECURSIVE downLoop(_, _, _)
downLoop(s, i, n) ==
  LET j1 == 2 * i + 1
  IN IF j1 >= n \/ j1 < 0
       THEN [s |-> s, i |-> i]
       ELSE LET j2 == j1 + 1
                j == IF j2 < n /\ Less(s, j2, j1) THEN j2 ELSE j1
            IN IF ~Less(s, j, i)
                 THEN [s |-> s, i |-> i]
                 ELSE downLoop(Swap(s, i, j), j, n)

down(s, i0, n) ==
  LET r == downLoop(s, i0, n)
  IN [s |-> r.s, moved |-> r.i > i0]

heapPush(s, x) ==
  LET s1 == Push(s, x)
  IN up(s1, StoreLen(s1) - 1)

heapRemove(s, i) ==
  LET n == StoreLen(s) - 1
      s1 == IF n # i
              THEN LET d == down(Swap(s, i, n), i, n)
                   IN IF ~d.moved THEN up(d.s, i) ELSE d.s
              ELSE s
  IN Pop(s1)

heapFix_none(s, i) == s

heapFix(s, i) ==
  LET d == down(s, i, StoreLen(s))
  IN IF ~d.moved THEN up(d.s, i) ELSE d.s

\* ------------------------------------------------ memoryStore operations
\* The lookup half of Read: memory.go lines 128-139.  ret is the session
\* returned on the fast path, 0 when Read goes on to create one.
memoryStore_ReadLookup_noExpiry(s, sid, t) ==
  IF sid \in DOMAIN s.index
    THEN LET o == s.index[sid]
             s1 == SetLastAccessedAt(s, o, t)
         IN [s |-> heapFix(s1, s1.sess[o].index), ret |-> o]
    ELSE [s |-> s, ret |-> 0]

memoryStore_ReadLookup_alwaysNew(s, sid, t) ==
  IF sid \in DOMAIN s.index
    THEN [s |-> heapRemove(s, s.sess[s.index[sid]].index), ret |-> 0]
    ELSE [s |-> s, ret |-> 0]

memoryStore_ReadLookup(s, sid, t) ==
  IF sid \in DOMAIN s.index
    THEN LET o == s.index[sid]
         IN IF t < s.sess[o].lastAccessedAt + s.lifetime
              THEN LET s1 == SetLastAccessedAt(s, o, t)
                   IN [s |-> heapFix(s1, s1.sess[o].index), ret |-> o]
              ELSE [s |-> heapRemove(s, s.sess[o].index), ret |-> 0]
    ELSE [s |-> s, ret |-> 0]

\* The creation half of Read: memory.go lines 141-144.
memoryStore_ReadCreate(s, sid, t) ==
  LET o == s.nObj + 1
      s1 == [s EXCEPT !.sess = MapPut(s.sess, o, newMemorySession(sid)), !.nObj = o]
      s2 == SetLastAccessedAt(s1, o, t)
  IN [s |-> heapPush(s2, o), ret |-> o]

memoryStore_Exist(s, sid) == sid \in DOMAIN s.index

memoryStore_Destroy(s, sid) ==
  IF sid \notin DOMAIN s.index
    THEN s
    ELSE heapRemove(s, s.sess[s.index[sid]].index)

memoryStore_Save_refreshes(s, o) ==
  [s EXCEPT !.sess[o].lastAccessedAt = @ + 1]

memoryStore_Save(s, o) == s

\* Touch of the in-memory store: refresh the last access time of an
\* existing entry and restore its heap position; nothing for an unknown ID.
memoryStore_Touch(s, sid, t) ==
  IF sid \notin DOMAIN s.index
    THEN s
    ELSE LET o == s.index[sid]
             s1 == SetLastAccessedAt(s, o, t)
         IN heapFix(s1, s1.sess[o].index)

memoryStore_GCBody_twoLifetimes(s, t) ==
  IF StoreLen(s) = 0
    THEN [s |-> s, done |-> TRUE]
    ELSE LET o == s.heap[1]
         IN IF t < s.sess[o].lastAccessedAt + 2 * s.lifetime
              THEN [s |-> s, done |-> TRUE]
              ELSE [s |-> heapRemove(s, s.sess[o].index), done |-> FALSE]

memoryStore_GCBody_offByOne(s, t) ==
  IF StoreLen(s) = 0
    THEN [s |-> s, done |-> TRUE]
    ELSE LET o == s.heap[1]
         IN IF t <= s.sess[o].lastAccessedAt + s.lifetime
              THEN [s |-> s, done |-> TRUE]
              ELSE [s |-> heapRemove(s, s.sess[o].index), done |-> FALSE]

\* One critical section of the GC loop: memory.go lines 174-191.
memoryStore_GCBody(s, t) ==
  IF StoreLen(s) = 0
    THEN [s |-> s, done |-> TRUE]
    ELSE LET o == s.heap[1]
         IN IF t < s.sess[o].lastAccessedAt + s.lifetime
              THEN [s |-> s, done |-> TRUE]
              ELSE [s |-> heapRemove(s, s.sess[o].index), done |-> FALSE]

\* s.lock.Lock() / s.lock.RLock() succeed only while no writer holds it.
LockFree_unguarded == TRUE

LockFree == lock = 0

\* ------------------------------------------------- BaseSession operations
BaseSession_Get(s, o, k) == s.sess[o].data[k]

BaseSession_Set_onlyChanged(s, o, k, v) ==
  [s EXCEPT !.sess[o].changed = TRUE]

BaseSession_Set(s, o, k, v) ==
  [s EXCEPT !.sess[o].changed = TRUE, !.sess[o].data[k] = v]

BaseSession_SetFlash(s, o, v) ==
  [s EXCEPT !.sess[o].changed = TRUE, !.sess[o].data[flashKey] = v]

BaseSession_Delete_onlyPresent(s, o, k) ==
  [s EXCEPT !.sess[o].changed = @ \/ s.sess[o].data[k] # Nil, !.sess[o].data[k] = Nil]

BaseSession_Delete_wipesAll(s, o, k) ==
  [s EXCEPT !.sess[o].changed = TRUE, !.sess[o].data = EmptyData]

BaseSession_Delete(s, o, k) ==
  [s EXCEPT !.sess[o].changed = TRUE, !.sess[o].data[k] = Nil]

BaseSession_Flush(s, o) ==
  [s EXCEPT !.sess[o].changed = TRUE, !.sess[o].data = EmptyData]

\* Read as one critical section: memory.go lines 124-145.
memoryStore_Read(s, sid, t) ==
  LET r == memoryStore_ReadLookup(s, sid, t)
  IN IF r.ret # 0 THEN r ELSE memoryStore_ReadCreate(r.s, sid, t)

\* GC run to completion with the clock at t: memory.go lines 164-197.
RECURSIVE memoryStore_GC(_, _, _)
memoryStore_GC(s, t, cancelled) ==
  IF cancelled
    THEN s
    ELSE LET r == memoryStore_GCBody(s, t)
         IN IF r.done THEN r.s ELSE memoryStore_GC(r.s, t, cancelled)


\* ------------------------------------------------------ persistent stores
\* A persistent store value db is a record [rows, dirs].  rows maps a key to
\* [data, stamp]: data is the encoded session data, stamp the time the store
\* keeps with it (expired_at for the SQL stores and MongoDB, the deadline of
\* the key for Redis, the modification time of the file for the file store).
\* io is the outcome of the call to the database, the server or the file
\* system; enc the outcome of the session's encoder.
DB == [rows |-> rows, dirs |-> dirs]

IOs == {"ok", "fail"}

minimumSIDLength == 3

\* encoding/gob of the session data.
GobEncoder(data) == <<"gob", data>>

GobDecodable(binary) == Len(binary) = 2 /\ binary[1] = "gob"

GobDecoder(binary) == binary[2]


NoSession == NewBaseSession(<<>>)
ReadOk(db, s) == [db |-> db, sess |-> s, err |-> Nil]
ReadErr(db, e) == [db |-> db, sess |-> NoSession, err |-> e]
OpOk(db) == [db |-> db, err |-> Nil]
OpErr(db, e) == [db |-> db, err |-> e]

\* time.Time.Format(time.DateTime) followed by time.Parse(time.DateTime, _):
\* the layout "2006-01-02 15:04:05" keeps whole seconds only.
FormatDateTime(t) == t - (t % TicksPerSecond)

\* ---- postgresStore (unnamed/part_011)
postgresStore_Exist(db, sid, t, io) ==
  io = "ok" /\ sid \in DOMAIN db.rows

postgresStore_Read(db, sid, t, io) ==
  IF io # "ok"
    THEN ReadErr(db, "select")
    ELSE IF sid \in DOMAIN db.rows
      THEN IF ~(t < db.rows[sid].stamp + DBLifetime)
             THEN ReadOk(db, NewBaseSession(sid))
             ELSE IF ~GobDecodable(db.rows[sid].data)
                    THEN ReadErr(db, "decode")
                    ELSE ReadOk(db, NewBaseSessionWithData(sid, GobDecoder(db.rows[sid].data)))
      ELSE ReadOk(db, NewBaseSession(sid))

postgresStore_Destroy(db, sid, t, io) ==
  IF io # "ok"
    THEN OpErr(db, "delete")
    ELSE OpOk([db EXCEPT !.rows = MapDelete(@, sid)])

postgresStore_Touch_noLifetime(db, sid, t, io) ==
  IF io # "ok"
    THEN OpErr(db, "update")
    ELSE IF sid \in DOMAIN db.rows
           THEN OpOk([db EXCEPT !.rows[sid].stamp = t])
           ELSE OpOk(db)

postgresStore_Touch(db, sid, t, io) ==
  IF io # "ok"
    THEN OpErr(db, "update")
    ELSE IF sid \in DOMAIN db.rows
           THEN OpOk([db EXCEPT !.rows[sid].stamp = t + DBLifetime])
           ELSE OpOk(db)

postgresStore_Save_noLifetime(db, s, t, enc, io) ==
  IF enc # "ok"
    THEN OpErr(db, "encode")
    ELSE IF io # "ok"
      THEN OpErr(db, "upsert")
      ELSE OpOk([db EXCEPT !.rows = MapPut(@, s.sid, [data |-> GobEncoder(s.data), stamp |-> t])])

postgresStore_Save(db, s, t, enc, io) ==
  IF enc # "ok"
    THEN OpErr(db, "encode")
    ELSE IF io # "ok"
      THEN OpErr(db, "upsert")
      ELSE OpOk([db EXCEPT !.rows = MapPut(@, s.sid, [data |-> GobEncoder(s.data), stamp |-> t + DBLifetime])])

postgresStore_GC(db, t, io) ==
  IF io # "ok"
    THEN OpErr(db, "GC")
    ELSE OpOk([db EXCEPT !.rows = [k \in {x \in DOMAIN @ : ~(@[x].stamp <= t)} |-> @[k]]])

\* ---- mysqlStore (mysql/mysql.go)
mysqlStore_Exist(db, sid, t, io) ==
  io = "ok" /\ sid \in DOMAIN db.rows

mysqlStore_Read(db, sid, t, io) ==
  IF io # "ok"
    THEN ReadErr(db, "select")
    ELSE IF sid \in DOMAIN db.rows
      THEN IF ~(t < db.rows[sid].stamp + DBLifetime)
             THEN ReadOk(db, NewBaseSession(sid))
             ELSE IF ~GobDecodable(db.rows[sid].data)
                    THEN ReadErr(db, "decode")
                    ELSE ReadOk(db, NewBaseSessionWithData(sid, GobDecoder(db.rows[sid].data)))
      ELSE ReadOk(db, NewBaseSession(sid))

mysqlStore_Destroy(db, sid, t, io) ==
  IF io # "ok"
    THEN OpErr(db, "delete")
    ELSE OpOk([db EXCEPT !.rows = MapDelete(@, sid)])

mysqlStore_Save(db, s, t, enc, io) ==
  IF enc # "ok"
    THEN OpErr(db, "encode")
    ELSE IF io # "ok"
      THEN OpErr(db, "upsert")
      ELSE OpOk([db EXCEPT !.rows = MapPut(@, s.sid, [data |-> GobEncoder(s.data), stamp |-> t + DBLifetime])])

mysqlStore_GC(db, t, io) ==
  IF io # "ok"
    THEN OpErr(db, "GC")
    ELSE OpOk([db EXCEPT !.rows = [k \in {x \in DOMAIN @ : ~(@[x].stamp <= t)} |-> @[k]]])

\* ---- sqliteStore (unnamed/part_003)
sqliteStore_Exist(db, sid, t, io) ==
  io = "ok" /\ sid \in DOMAIN db.rows

sqliteStore_Read(db, sid, t, io) ==
  IF io # "ok"
    THEN ReadErr(db, "select")
    ELSE IF sid \in DOMAIN db.rows
      THEN IF ~(t < db.rows[sid].stamp + DBLifetime)
             THEN ReadOk(db, NewBaseSession(sid))
             ELSE IF ~GobDecodable(db.rows[sid].data)
                    THEN ReadErr(db, "decode")
                    ELSE ReadOk(db, NewBaseSessionWithData(sid, GobDecoder(db.rows[sid].data)))
      ELSE ReadOk(db, NewBaseSession(sid))

sqliteStore_Destroy(db, sid, t, io) ==
  IF io # "ok"
    THEN OpErr(db, "delete")
    ELSE OpOk([db EXCEPT !.rows = MapDelete(@, sid)])

sqliteStore_Save(db, s, t, enc, io) ==
  IF enc # "ok"
    THEN OpErr(db, "encode")
    ELSE IF io # "ok"
      THEN OpErr(db, "upsert")
      ELSE OpOk([db EXCEPT !.rows = MapPut(@, s.sid, [data |-> GobEncoder(s.data), stamp |-> FormatDateTime(t + DBLifetime)])])

sqliteStore_GC(db, t, io) ==
  IF io # "ok"
    THEN OpErr(db, "GC")
    ELSE OpOk([db EXCEPT !.rows = [k \in {x \in DOMAIN @ : ~(@[x].stamp <= FormatDateTime(t))} |-> @[k]]])

\* ---- mongoStore (mongo/mongo.go)
mongoStore_Exist(db, sid, t, io) ==
  IF io = "ok" /\ sid \notin DOMAIN db.rows THEN FALSE ELSE TRUE

mongoStore_Read(db, sid, t, io) ==
  IF io # "ok"
    THEN ReadErr(db, "select")
    ELSE IF sid \in DOMAIN db.rows
      THEN IF ~(t < db.rows[sid].stamp + DBLifetime)
             THEN ReadOk(db, NewBaseSession(sid))
             ELSE IF ~GobDecodable(db.rows[sid].data)
                    THEN ReadErr(db, "decode")
                    ELSE ReadOk(db, NewBaseSessionWithData(sid, GobDecoder(db.rows[sid].data)))
      ELSE ReadOk(db, NewBaseSession(sid))

mongoStore_Destroy(db, sid, t, io) ==
  IF io # "ok"
    THEN OpErr(db, "delete")
    ELSE OpOk([db EXCEPT !.rows = MapDelete(@, sid)])

mongoStore_Save_writeFirst(db, s, t, enc, io) ==
  IF io # "ok"
    THEN OpErr(db, "upsert")
    ELSE IF enc # "ok"
      THEN OpErr([db EXCEPT !.rows = MapPut(@, s.sid, [data |-> <<>>, stamp |-> t + DBLifetime])], "encode")
      ELSE OpOk([db EXCEPT !.rows = MapPut(@, s.sid, [data |-> GobEncoder(s.data), stamp |-> t + DBLifetime])])

mongoStore_Save(db, s, t, enc, io) ==
  IF enc # "ok"
    THEN OpErr(db, "encode")
    ELSE IF io # "ok"
      THEN OpErr(db, "upsert")
      ELSE OpOk([db EXCEPT !.rows = MapPut(@, s.sid, [data |-> GobEncoder(s.data), stamp |-> t + DBLifetime])])

mongoStore_GC(db, t, io) ==
  IF io # "ok"
    THEN OpErr(db, "GC")
    ELSE OpOk([db EXCEPT !.rows = [k \in {x \in DOMAIN @ : ~(@[x].stamp < t)} |-> @[k]]])


\* ---- redisStore (redis/redis.go)
\* The server drops a key when its time to live has elapsed: a key whose
\* deadline has come is not there for any command.
redisKeys(db, t) ==
  [db EXCEPT !.rows = [k \in {x \in DOMAIN @ : @[x].stamp > t} |-> @[k]]]

redisStore_Exist(db, sid, t, io) ==
  io = "ok" /\ sid \in DOMAIN redisKeys(db, t).rows

redisStore_Read_emptyOnDecodeError(db, sid, t, io) ==
  LET d == redisKeys(db, t)
  IN IF io # "ok"
       THEN ReadErr(d, "get")
       ELSE IF sid \notin DOMAIN d.rows \/ ~GobDecodable(d.rows[sid].data)
         THEN ReadOk(d, NewBaseSession(sid))
         ELSE ReadOk(d, NewBaseSessionWithData(sid, GobDecoder(d.rows[sid].data)))

redisStore_Read(db, sid, t, io) ==
  LET d == redisKeys(db, t)
  IN IF io # "ok"
       THEN ReadErr(d, "get")
       ELSE IF sid \notin DOMAIN d.rows
         THEN ReadOk(d, NewBaseSession(sid))
         ELSE IF ~GobDecodable(d.rows[sid].data)
                THEN ReadErr(d, "decode")
                ELSE ReadOk(d, NewBaseSessionWithData(sid, GobDecoder(d.rows[sid].data)))

redisStore_Destroy(db, sid, t, io) ==
  LET d == redisKeys(db, t)
  IN IF io # "ok"
       THEN OpErr(d, "del")
       ELSE OpOk([d EXCEPT !.rows = MapDelete(@, sid)])

redisStore_Touch(db, sid, t, io) ==
  LET d == redisKeys(db, t)
  IN IF io # "ok"
       THEN OpErr(d, "expire")
       ELSE IF sid \in DOMAIN d.rows
              THEN OpOk([d EXCEPT !.rows[sid].stamp = t + DBLifetime])
              ELSE OpOk(d)

redisStore_Save(db, s, t, enc, io) ==
  LET d == redisKeys(db, t)
  IN IF enc # "ok"
       THEN OpErr(d, "encode")
       ELSE IF io # "ok"
         THEN OpErr(d, "set")
         ELSE OpOk([d EXCEPT !.rows = MapPut(@, s.sid, [data |-> GobEncoder(s.data), stamp |-> t + DBLifetime])])

redisStore_GC(db, t, io) == OpOk(db)

\* ---- fileStore (file.go)
\* A path is the sequence of its elements below rootDir.
filename(sid) == <<sid[1], sid[2], sid>>

Dir(path) == SubSeq(path, 1, Len(path) - 1)

\* rows holds the regular files, by the session ID that names them.
isFile(db, path) == path[Len(path)] \in DOMAIN db.rows

fileStore_Exist(db, sid, t, io) ==
  IF Len(sid) < minimumSIDLength
    THEN FALSE
    ELSE isFile(db, filename(sid))

fileStore_Read(db, sid, t, io) ==
  IF Len(sid) < minimumSIDLength
    THEN ReadErr(db, "ErrMinimumSIDLength")
    ELSE IF ~isFile(db, filename(sid))
      THEN IF io # "ok"
             THEN ReadErr(db, "create parent directory")
             ELSE ReadOk([db EXCEPT !.dirs = @ \cup {Dir(filename(sid))}], NewBaseSession(sid))
      ELSE IF io # "ok"
        THEN ReadErr(db, "stat file")
        ELSE IF ~(db.rows[sid].stamp + DBLifetime > t)
          THEN ReadOk(db, NewBaseSession(sid))
          ELSE IF ~GobDecodable(db.rows[sid].data)
                 THEN ReadErr(db, "decode")
                 ELSE ReadOk(db, NewBaseSessionWithData(sid, GobDecoder(db.rows[sid].data)))

\* os.Remove fails when there is no such file.
fileStore_Destroy(db, sid, t, io) ==
  IF Len(sid) < minimumSIDLength
    THEN OpOk(db)
    ELSE IF io # "ok" \/ ~isFile(db, filename(sid))
           THEN OpErr(db, "remove")
           ELSE OpOk([db EXCEPT !.rows = MapDelete(@, sid)])

\* filename indexes sid[0] and sid[1] with no length check.
fileStore_Touch(db, sid, t, io) ==
  IF Len(sid) < 2
    THEN OpErr(db, "panic: index out of range")
    ELSE IF ~isFile(db, filename(sid))
      THEN OpOk(db)
      ELSE IF io # "ok"
             THEN OpErr(db, "change times")
             ELSE OpOk([db EXCEPT !.rows[sid].stamp = t])

\* os.WriteFile creates the file but not its directory.
fileStore_Save(db, s, t, enc, io) ==
  IF Len(s.sid) < minimumSIDLength
    THEN OpErr(db, "ErrMinimumSIDLength")
    ELSE IF enc # "ok"
      THEN OpErr(db, "encode")
      ELSE IF io # "ok" \/ Dir(filename(s.sid)) \notin db.dirs
        THEN OpErr(db, "write file")
        ELSE OpOk([db EXCEPT !.rows = MapPut(@, s.sid, [data |-> GobEncoder(s.data), stamp |-> t])])

fileStore_GC(db, t, io) ==
  IF io # "ok"
    THEN OpErr(db, "walk")
    ELSE OpOk([db EXCEPT !.rows = [k \in {x \in DOMAIN @ : @[x].stamp + DBLifetime > t} |-> @[k]]])


\* ---- the Store interface: a call goes to the store the manager was built with
TouchKinds == {"postgres", "redis", "file"}

Store_Exist(kind, db, sid, t, io) ==
  CASE kind = "postgres" -> postgresStore_Exist(db, sid, t, io)
    [] kind = "mysql" -> mysqlStore_Exist(db, sid, t, io)
    [] kind = "sqlite" -> sqliteStore_Exist(db, sid, t, io)
    [] kind = "mongo" -> mongoStore_Exist(db, sid, t, io)
    [] kind = "redis" -> redisStore_Exist(db, sid, t, io)
    [] kind = "file" -> fileStore_Exist(db, sid, t, io)

Store_Read(kind, db, sid, t, io) ==
  CASE kind = "postgres" -> postgresStore_Read(db, sid, t, io)
    [] kind = "mysql" -> mysqlStore_Read(db, sid, t, io)
    [] kind = "sqlite" -> sqliteStore_Read(db, sid, t, io)
    [] kind = "mongo" -> mongoStore_Read(db, sid, t, io)
    [] kind = "redis" -> redisStore_Read(db, sid, t, io)
    [] kind = "file" -> fileStore_Read(db, sid, t, io)

Store_Destroy(kind, db, sid, t, io) ==
  CASE kind = "postgres" -> postgresStore_Destroy(db, sid, t, io)
    [] kind = "mysql" -> mysqlStore_Destroy(db, sid, t, io)
    [] kind = "sqlite" -> sqliteStore_Destroy(db, sid, t, io)
    [] kind = "mongo" -> mongoStore_Destroy(db, sid, t, io)
    [] kind = "redis" -> redisStore_Destroy(db, sid, t, io)
    [] kind = "file" -> fileStore_Destroy(db, sid, t, io)

Store_Touch(kind, db, sid, t, io) ==
  CASE kind = "postgres" -> postgresStore_Touch(db, sid, t, io)
    [] kind = "redis" -> redisStore_Touch(db, sid, t, io)
    [] kind = "file" -> fileStore_Touch(db, sid, t, io)

Store_Save(kind, db, s, t, enc, io) ==
  CASE kind = "postgres" -> postgresStore_Save(db, s, t, enc, io)
    [] kind = "mysql" -> mysqlStore_Save(db, s, t, enc, io)
    [] kind = "sqlite" -> sqliteStore_Save(db, s, t, enc, io)
    [] kind = "mongo" -> mongoStore_Save(db, s, t, enc, io)
    [] kind = "redis" -> redisStore_Save(db, s, t, enc, io)
    [] kind = "file" -> fileStore_Save(db, s, t, enc, io)

Store_GC(kind, db, t, io) ==
  CASE kind = "postgres" -> postgresStore_GC(db, t, io)
    [] kind = "mysql" -> mysqlStore_GC(db, t, io)
    [] kind = "sqlite" -> sqliteStore_GC(db, t, io)
    [] kind = "mongo" -> mongoStore_GC(db, t, io)
    [] kind = "redis" -> redisStore_GC(db, t, io)
    [] kind = "file" -> fileStore_GC(db, t, io)


\* ======================================================================
\* The stores, one caller at a time.  Every action is one complete call of
\* a Store method, a change of a session's data by its holder, or the
\* clock moving on.
\* ======================================================================
NoOp == [op |-> "none"]

Restrict(m, d) == [k \in DOMAIN m \cap d |-> m[k]]

\* No request is being served; the GC goroutine has not been started.
NoReq == [phase |-> "none"]

NoSched == [pc |-> "none"]

Init ==
  /\ now = 0
  /\ backend \in {MemoryKind} \cup DBKinds
  /\ heap = <<>>
  /\ index = <<>>
  /\ sess = <<>>
  /\ nObj = 0
  /\ rows = <<>>
  /\ dirs = {}
  /\ fresh = <<>>
  /\ issued = <<>>
  /\ last = NoOp
  /\ lock = 0
  /\ pc = [p \in Procs |-> "idle"]
  /\ rd = [p \in Procs |-> SidA]
  /\ gcpc = "idle"
  /\ ctxDone = FALSE
  /\ req = NoReq
  /\ jar = {}
  /\ ghost = <<>>
  /\ sch = NoSched

SetStore(s) ==
  /\ heap' = s.heap
  /\ index' = s.index
  /\ sess' = s.sess
  /\ nObj' = s.nObj

\* What Read(sid) at time t finds in the in-memory store s.
Expired(s, sid, t) == ~(t < s.sess[s.index[sid]].lastAccessedAt + s.lifetime)

ReadPre(s, sid, t) ==
  IF sid \notin DOMAIN s.index THEN "absent"
  ELSE IF Expired(s, sid, t) THEN "expired" ELSE "live"

HasData(s, sid) ==
  sid \in DOMAIN s.index /\ s.sess[s.index[sid]].data # EmptyData

Read(sid) ==
  LET r == memoryStore_Read(Store, sid, now)
  IN /\ backend = MemoryKind
     /\ r.s.nObj <= MaxObjs
     /\ SetStore(r.s)
     /\ issued' = IF ReadPre(Store, sid, now) = "live"
                    THEN issued
                    ELSE MapPut(issued, sid, r.ret)
     /\ last' = [op |-> "Read", sid |-> sid, pre |-> ReadPre(Store, sid, now),
                 hadData |-> HasData(Store, sid), ret |-> r.ret]
     /\ UNCHANGED <<now, backend, dbVars, concVars, mgrVars>>

Exist(sid) ==
  /\ backend = MemoryKind
  /\ last' = [op |-> "Exist", sid |-> sid, ok |-> memoryStore_Exist(Store, sid)]
  /\ UNCHANGED <<now, backend, memVars, dbVars, issued, concVars, mgrVars>>

Destroy(sid) ==
  LET s1 == memoryStore_Destroy(Store, sid)
  IN /\ backend = MemoryKind
     /\ SetStore(s1)
     /\ issued' = Restrict(issued, DOMAIN s1.index)
     /\ last' = [op |-> "Destroy", sid |-> sid, had |-> sid \in DOMAIN index]
     /\ UNCHANGED <<now, backend, dbVars, concVars, mgrVars>>

Save(o) ==
  /\ backend = MemoryKind
  /\ o \in DOMAIN sess
  /\ SetStore(memoryStore_Save(Store, o))
  /\ last' = [op |-> "Save", sid |-> sess[o].sid, obj |-> o]
  /\ UNCHANGED <<now, backend, dbVars, issued, concVars, mgrVars>>

Touch(sid) ==
  /\ backend = MemoryKind
  /\ SetStore(memoryStore_Touch(Store, sid, now))
  /\ last' = [op |-> "Touch", sid |-> sid, had |-> sid \in DOMAIN index,
              past |-> sid \in DOMAIN index /\ Expired(Store, sid, now)]
  /\ UNCHANGED <<now, backend, dbVars, issued, concVars, mgrVars>>

GC(cancelled) ==
  LET s1 == memoryStore_GC(Store, now, cancelled)
  IN /\ backend = MemoryKind
     /\ SetStore(s1)
     /\ issued' = Restrict(issued, DOMAIN s1.index)
     /\ last' = [op |-> "GC", cancelled |-> cancelled,
                 removed |-> Len(heap) - Len(s1.heap)]
     /\ UNCHANGED <<now, backend, dbVars, concVars, mgrVars>>

\* The holder of a session sets a key: BaseSession.Set under the data lock.
SessionSet(o, k, v) ==
  /\ backend = MemoryKind
  /\ o \in DOMAIN sess
  /\ sess[o].data[k] # v
  /\ SetStore(BaseSession_Set(Store, o, k, v))
  /\ last' = NoOp
  /\ UNCHANGED <<now, backend, dbVars, issued, concVars, mgrVars>>

MaxTime == IF backend = MemoryKind THEN MemMaxTime ELSE DBMaxTime

Tick ==
  /\ now < MaxTime
  /\ now' = now + 1
  /\ last' = NoOp
  /\ UNCHANGED <<backend, memVars, dbVars, issued, concVars, mgrVars>>


SetDB(db) ==
  /\ rows' = db.rows
  /\ dirs' = db.dirs

\* The keys a persistent store holds as far as its callers can tell.
Visible(db) == IF backend = "redis" THEN DOMAIN redisKeys(db, now).rows ELSE DOMAIN db.rows

DBRead(sid, io) ==
  LET r == Store_Read(backend, DB, sid, now, io)
  IN /\ backend \in DBKinds
     /\ SetDB(r.db)
     /\ fresh' = Restrict(fresh, DOMAIN r.db.rows)
     /\ last' = [op |-> "Read", sid |-> sid, err |-> r.err, data |-> r.sess.data,
                 had |-> sid \in Visible(DB)]
     /\ UNCHANGED <<now, backend, memVars, issued, concVars, mgrVars>>

DBExist(sid, io) ==
  /\ backend \in DBKinds
  /\ last' = [op |-> "Exist", sid |-> sid, ok |-> Store_Exist(backend, DB, sid, now, io)]
  /\ UNCHANGED <<now, backend, memVars, dbVars, issued, concVars, mgrVars>>

DBDestroy(sid, io) ==
  LET r == Store_Destroy(backend, DB, sid, now, io)
  IN /\ backend \in DBKinds
     /\ SetDB(r.db)
     /\ fresh' = Restrict(fresh, DOMAIN r.db.rows)
     /\ last' = [op |-> "Destroy", sid |-> sid, err |-> r.err, had |-> sid \in Visible(DB)]
     /\ UNCHANGED <<now, backend, memVars, issued, concVars, mgrVars>>

DBTouch(sid, io) ==
  LET r == Store_Touch(backend, DB, sid, now, io)
      had == sid \in Visible(DB)
  IN /\ backend \in TouchKinds
     /\ SetDB(r.db)
     /\ fresh' = IF r.err = Nil /\ had
                   THEN MapPut(Restrict(fresh, DOMAIN r.db.rows), sid,
                               [at |-> now, by |-> "Touch", data |-> fresh[sid].data])
                   ELSE Restrict(fresh, DOMAIN r.db.rows)
     /\ last' = [op |-> "Touch", sid |-> sid, err |-> r.err, had |-> had,
                 past |-> had /\ ~(now < fresh[sid].at + DBLifetime)]
     /\ UNCHANGED <<now, backend, memVars, issued, concVars, mgrVars>>

\* Save of a session with the given ID holding the given data.
DBSave(sid, data, enc, io) ==
  LET r == Store_Save(backend, DB, NewBaseSessionWithData(sid, data), now, enc, io)
  IN /\ backend \in DBKinds
     /\ SetDB(r.db)
     /\ fresh' = IF r.err = Nil
                   THEN MapPut(Restrict(fresh, DOMAIN r.db.rows), sid,
                               [at |-> now, by |-> "Save", data |-> data])
                   ELSE Restrict(fresh, DOMAIN r.db.rows)
     /\ last' = [op |-> "Save", sid |-> sid, err |-> r.err]
     /\ UNCHANGED <<now, backend, memVars, issued, concVars, mgrVars>>

DBGC(io) ==
  LET r == Store_GC(backend, DB, now, io)
  IN /\ backend \in DBKinds
     /\ SetDB(r.db)
     /\ fresh' = Restrict(fresh, DOMAIN r.db.rows)
     /\ last' = [op |-> "GC", err |-> r.err,
                 removed |-> Cardinality(DOMAIN rows) - Cardinality(DOMAIN r.db.rows)]
     /\ UNCHANGED <<now, backend, memVars, issued, concVars, mgrVars>>

\* The IDs a caller passes to a persistent store.  The file store treats a
\* short ID its own way; to the other stores it is a key like any other.
CallSIDs == IF backend = "file" THEN DBSIDs \cup {ShortSid} ELSE DBSIDs

Next ==
  \/ \E sid \in MemSIDs : Read(sid)
  \/ \E sid \in MemSIDs : Exist(sid)
  \/ \E sid \in MemSIDs : Destroy(sid)
  \/ \E o \in 1..MaxObjs : Save(o)
  \/ \E sid \in MemSIDs : Touch(sid)
  \/ \E c \in BOOLEAN : GC(c)
  \/ \E o \in 1..MaxObjs, k \in UserKeys, v \in Vals : SessionSet(o, k, v)
  \/ Tick
  \/ \E sid \in CallSIDs, io \in IOs : DBRead(sid, io)
  \/ \E sid \in CallSIDs, io \in IOs : DBExist(sid, io)
  \/ \E sid \in CallSIDs, io \in IOs : DBDestroy(sid, io)
  \/ \E sid \in CallSIDs, io \in IOs : DBTouch(sid, io)
  \/ \E sid \in CallSIDs, data \in UserData, enc \in IOs, io \in IOs : DBSave(sid, data, enc, io)
  \/ \E io \in IOs : DBGC(io)

Spec == Init /\ [][Next]_vars

TypeOK ==
  /\ now \in 0..MaxTime
  /\ backend \in {MemoryKind} \cup DBKinds
  /\ nObj \in 0..(MaxObjs + 1)
  /\ \A sid \in DOMAIN index : Len(sid) = minimumSIDLength
  /\ DOMAIN rows \subseteq DBSIDs
  /\ DOMAIN fresh \subseteq DOMAIN rows


\* ======================================================================
\* Properties of the stores under Spec
\* ======================================================================

\* C2: on the in-memory store, Read(id) at a time now >= lastAccessedAt +
\* lifetime of id's entry returns a session whose ID is id and whose data is
\* empty, both when the expired entry is still in the store (GC has not run)
\* and when it is gone (GC has removed it).
C2_ExpiredReadIsEmpty ==
  backend = MemoryKind =>
    \A sid \in MemSIDs :
      ReadPre(Store, sid, now) # "live" =>
        LET r == memoryStore_Read(Store, sid, now)
        IN /\ r.ret \in DOMAIN r.s.sess
           /\ r.s.sess[r.ret].sid = sid
           /\ \A k \in Keys : BaseSession_Get(r.s, r.ret, k) = Nil

\* A Read has just found an expired entry that held data and returned an
\* empty session with the same ID.
C2_Witness ==
  /\ backend = MemoryKind
  /\ last.op = "Read"
  /\ last.pre = "expired"
  /\ last.hadData
  /\ sess[last.ret].sid = last.sid
  /\ sess[last.ret].data = EmptyData

\* C5: on the in-memory store a GC run to completion with the clock fixed
\* removes exactly the entries with now >= lastAccessedAt + lifetime: the
\* entries left are the unexpired ones, each still the same session.
C5_GCRemovesExactlyExpired ==
  backend = MemoryKind =>
    LET s1 == memoryStore_GC(Store, now, FALSE)
    IN /\ DOMAIN s1.index = {sid \in DOMAIN index : ~Expired(Store, sid, now)}
       /\ \A sid \in DOMAIN s1.index : s1.index[sid] = index[sid]
       /\ {s1.heap[i] : i \in 1..Len(s1.heap)} = {s1.index[sid] : sid \in DOMAIN s1.index}

\* A GC has just removed at least two entries and kept at least one.
C5_Witness ==
  /\ backend = MemoryKind
  /\ last.op = "GC"
  /\ ~last.cancelled
  /\ last.removed >= 2
  /\ Len(heap) >= 1

\* C6: on the in-memory store, once a Read of an absent ID has created a
\* session, a Read of the same ID before the entry expires, with no Destroy
\* or GC removal of it in between, returns that same session object.
C6_SecondReadSameObject ==
  backend = MemoryKind =>
    \A sid \in DOMAIN issued :
      /\ sid \in DOMAIN index
      /\ ~Expired(Store, sid, now) => memoryStore_Read(Store, sid, now).ret = issued[sid]

\* A Read has just found a live entry and returned the session the creating
\* Read had returned, after another session was created in between.
C6_Witness ==
  /\ backend = MemoryKind
  /\ last.op = "Read"
  /\ last.pre = "live"
  /\ last.ret = issued[last.sid]
  /\ last.ret < nObj


\* C3: on Postgres, MySQL, SQLite and MongoDB, once a session has been saved
\* at time T with lifetime L, a Read of its ID at any time t >= T + L that
\* succeeds returns an empty session with the same ID, also while no GC has
\* removed the row.
C3_ReadAfterLifetimeIsEmpty ==
  backend \in {"postgres", "mysql", "sqlite", "mongo"} =>
    \A sid \in DOMAIN fresh :
      (fresh[sid].by = "Save" /\ now >= fresh[sid].at + DBLifetime) =>
        LET r == Store_Read(backend, DB, sid, now, "ok")
        IN /\ r.err = Nil
           /\ r.sess.sid = sid
           /\ r.sess.data = EmptyData

\* C8 as stated: on every backend, the in-memory store included, a session
\* saved at time t survives every GC run before t + lifetime, and a Read
\* before t + lifetime returns its payload.
C8_SaveResetsHorizonEverywhere ==
  /\ (backend = MemoryKind /\ last.op = "Save") =>
       \A g \in now..(now + MemLifetime - 1) :
         /\ last.sid \in DOMAIN memoryStore_GC(Store, g, FALSE).index
         /\ memoryStore_Read(Store, last.sid, g).ret = last.obj
  /\ backend \in DBKinds =>
       \A sid \in DOMAIN fresh :
         (fresh[sid].by = "Save" /\ now < fresh[sid].at + DBLifetime) =>
           /\ sid \in DOMAIN Store_GC(backend, DB, now, "ok").db.rows
           /\ Store_Read(backend, DB, sid, now, "ok").sess.data = fresh[sid].data

\* C8 amended: on the persistent backends a session saved at time t is
\* returned with its payload by every Read before t + lifetime and survives
\* every GC run before t + lifetime; on SQLite, which stores the horizon
\* truncated to the whole second, it survives every GC run in a second
\* earlier than the second of t + lifetime.
C8_SaveResetsHorizonPersistent ==
  backend \in DBKinds =>
    \A sid \in DOMAIN fresh :
      (fresh[sid].by = "Save" /\ now < fresh[sid].at + DBLifetime) =>
        /\ Store_Read(backend, DB, sid, now, "ok").err = Nil
        /\ Store_Read(backend, DB, sid, now, "ok").sess.data = fresh[sid].data
        /\ Store_Exist(backend, DB, sid, now, "ok")
        /\ backend # "sqlite" => sid \in DOMAIN Store_GC(backend, DB, now, "ok").db.rows
        /\ (backend = "sqlite"
              /\ FormatDateTime(now) < FormatDateTime(fresh[sid].at + DBLifetime)) =>
             sid \in DOMAIN Store_GC(backend, DB, now, "ok").db.rows

\* A GC has just run on a persistent store after a session with data was
\* saved and before the session's horizon, and the session is still there.
C8_Witness ==
  /\ backend \in DBKinds
  /\ last.op = "GC"
  /\ last.err = Nil
  /\ \E sid \in DOMAIN fresh :
       /\ fresh[sid].by = "Save"
       /\ fresh[sid].data # EmptyData
       /\ fresh[sid].at < now
       /\ now < fresh[sid].at + DBLifetime
       /\ sid \in DOMAIN rows

\* C9: on every backend Destroy(id) returns no error whether or not id has
\* an entry; afterwards Exist(id) is false and every other entry is as it
\* was; a second Destroy(id) behaves the same.
C9_DestroyIdempotent ==
  /\ backend = MemoryKind =>
       \A sid \in MemSIDs :
         LET s1 == memoryStore_Destroy(Store, sid)
         IN /\ ~memoryStore_Exist(s1, sid)
            /\ \A o \in MemSIDs \ {sid} :
                 /\ memoryStore_Exist(s1, o) = memoryStore_Exist(Store, o)
                 /\ memoryStore_Exist(s1, o) => s1.sess[s1.index[o]] .data = sess[index[o]].data
            /\ memoryStore_Destroy(s1, sid).index = s1.index
  /\ backend \in DBKinds =>
       \A sid \in DBSIDs :
         LET r == Store_Destroy(backend, DB, sid, now, "ok")
             r2 == Store_Destroy(backend, r.db, sid, now, "ok")
         IN /\ r.err = Nil
            /\ ~Store_Exist(backend, r.db, sid, now, "ok")
            /\ \A o \in DBSIDs \ {sid} :
                 /\ Store_Exist(backend, r.db, o, now, "ok") = Store_Exist(backend, DB, o, now, "ok")
                 /\ o \in DOMAIN r.db.rows => r.db.rows[o] = rows[o]
            /\ r2.err = Nil
            /\ r2.db = r.db

\* C10: on a store that implements Touch, Touch(id) at time t on an entry
\* that exists, also one whose horizon has passed but that GC has not removed,
\* moves the horizon to t + lifetime: until then the entry exists and a GC
\* run leaves it in the store.
C10_TouchMovesHorizon ==
  /\ (backend = MemoryKind /\ last.op = "Touch" /\ last.had) =>
       \A g \in now..(now + MemLifetime - 1) :
         last.sid \in DOMAIN memoryStore_GC(Store, g, FALSE).index
  /\ backend \in TouchKinds =>
       \A sid \in DOMAIN fresh :
         (fresh[sid].by = "Touch" /\ now < fresh[sid].at + DBLifetime) =>
           /\ Store_Exist(backend, DB, sid, now, "ok")
           /\ Store_Exist(backend, Store_GC(backend, DB, now, "ok").db, sid, now, "ok")

\* A Touch has just succeeded on an entry of the Postgres store whose
\* horizon had passed with no GC run since.
C10_Witness ==
  /\ backend = "postgres"
  /\ last.op = "Touch"
  /\ last.err = Nil
  /\ last.had
  /\ last.past
  /\ last.sid \in DOMAIN rows


\* ======================================================================
\* The in-memory store under concurrent callers.  A Read is split where
\* another goroutine could run if the lock were not held: after the lookup
\* and before the insertion.  GC takes the lock once per loop iteration.
\* ======================================================================
seqVars == <<rows, dirs, fresh, issued, last>>

InitConc ==
  /\ Init
  /\ backend = MemoryKind

\* A goroutine calls Read(sid) and waits for the lock.  Goroutines that are
\* not inside a call are interchangeable: the caller is the first idle one.
ReadCall(p, sid) ==
  /\ pc[p] = "idle"
  /\ \A q \in Procs : q < p => pc[q] # "idle"
  /\ pc' = [pc EXCEPT ![p] = "lock"]
  /\ rd' = [rd EXCEPT ![p] = sid]
  /\ UNCHANGED <<now, backend, memVars, seqVars, lock, gcpc, ctxDone, mgrVars>>

\* s.lock.Lock() and the lookup: Read returns on the fast path or goes on.
ReadLockLookup(p) ==
  LET r == memoryStore_ReadLookup(Store, rd[p], now)
  IN /\ pc[p] = "lock"
     /\ LockFree
     /\ SetStore(r.s)
     /\ IF r.ret # 0
          THEN /\ pc' = [pc EXCEPT ![p] = "idle"]
               /\ rd' = [rd EXCEPT ![p] = SidA]
               /\ lock' = 0
          ELSE /\ pc' = [pc EXCEPT ![p] = "create"]
               /\ rd' = rd
               /\ lock' = p
     /\ UNCHANGED <<now, backend, seqVars, gcpc, ctxDone, mgrVars>>

\* The insertion and the deferred s.lock.Unlock().
ReadInsert(p) ==
  /\ pc[p] = "create"
  /\ nObj < MaxObjs
  /\ SetStore(memoryStore_ReadCreate(Store, rd[p], now).s)
  /\ pc' = [pc EXCEPT ![p] = "idle"]
  /\ rd' = [rd EXCEPT ![p] = SidA]
  /\ lock' = 0
  /\ UNCHANGED <<now, backend, seqVars, gcpc, ctxDone, mgrVars>>

\* Destroy is one critical section, whichever goroutine calls it.
DestroyLocked(sid) ==
  /\ LockFree
  /\ sid \in DOMAIN index
  /\ SetStore(memoryStore_Destroy(Store, sid))
  /\ UNCHANGED <<now, backend, seqVars, concVars, mgrVars>>

GCCall ==
  /\ gcpc = "idle"
  /\ gcpc' = "select"
  /\ ctxDone' = FALSE
  /\ UNCHANGED <<now, backend, memVars, seqVars, lock, pc, rd, mgrVars>>

\* select { case <-ctx.Done(): return nil; default: }
\* Each GC call has its own context: ctxDone is cleared when the call returns.
GCSelect ==
  /\ gcpc = "select"
  /\ gcpc' = IF ctxDone THEN "idle" ELSE "body"
  /\ ctxDone' = FALSE
  /\ UNCHANGED <<now, backend, memVars, seqVars, lock, pc, rd, mgrVars>>

GCIterate ==
  LET r == memoryStore_GCBody(Store, now)
  IN /\ gcpc = "body"
     /\ LockFree
     /\ SetStore(r.s)
     /\ gcpc' = IF r.done THEN "idle" ELSE "select"
     /\ ctxDone' = (ctxDone /\ ~r.done)
     /\ UNCHANGED <<now, backend, seqVars, lock, pc, rd, mgrVars>>

Cancel ==
  /\ gcpc # "idle"
  /\ ~ctxDone
  /\ ctxDone' = TRUE
  /\ UNCHANGED <<now, backend, memVars, seqVars, lock, pc, rd, gcpc, mgrVars>>

TickConc ==
  /\ now < MemMaxTime
  /\ now' = now + 1
  /\ UNCHANGED <<backend, memVars, seqVars, concVars, mgrVars>>

NextConc ==
  \/ \E p \in Procs, sid \in MemSIDs : ReadCall(p, sid)
  \/ \E p \in Procs : ReadLockLookup(p)
  \/ \E p \in Procs : ReadInsert(p)
  \/ \E sid \in MemSIDs : DestroyLocked(sid)
  \/ GCCall
  \/ GCSelect
  \/ GCIterate
  \/ Cancel
  \/ TickConc

SpecConc == InitConc /\ [][NextConc]_vars

\* C4: whenever no call is inside a critical section of the in-memory
\* store, whatever Reads, Destroys and GC iterations have interleaved so
\* far, the heap and the index agree: as many heap slots as index keys,
\* every heap slot holds a session whose index field is its position and
\* which the index maps its ID to, and every session in the index sits in
\* exactly one heap slot.
C4_HeapIndexConsistent ==
  lock = 0 =>
    /\ Len(heap) = Cardinality(DOMAIN index)
    /\ \A i \in 1..Len(heap) :
         /\ heap[i] \in DOMAIN sess
         /\ sess[heap[i]].index = i - 1
         /\ sess[heap[i]].sid \in DOMAIN index
         /\ index[sess[heap[i]].sid] = heap[i]
    /\ \A sid \in DOMAIN index :
         Cardinality({i \in 1..Len(heap) : heap[i] = index[sid]}) = 1

\* A GC call is inside its loop while a Read waits for the lock, after three
\* sessions were created and one of them was removed.
C4_Witness ==
  /\ gcpc = "select"
  /\ Len(heap) = 2
  /\ nObj = MaxObjs
  /\ \E p \in Procs : pc[p] = "lock"

\* C7: concurrent Reads of one ID, with Destroy and GC running as well,
\* never leave two entries for that ID: no two heap slots hold sessions
\* with the same ID.
C7_OneEntryPerID ==
  \A i, j \in 1..Len(heap) :
    (heap[i] \in DOMAIN sess /\ heap[j] \in DOMAIN sess /\ sess[heap[i]].sid = sess[heap[j]].sid)
      => i = j

\* One Read is between its lookup and its insertion while another Read of
\* the same ID has been called and waits.
C7_Witness ==
  /\ pc[1] = "create"
  /\ pc[2] = "lock"
  /\ rd[1] = rd[2]
  /\ lock = 1
  /\ gcpc = "body"


\* ======================================================================
\* The manager: load, as the middleware of session.go calls it, over the
\* in-memory store.
\* ======================================================================
IDLength == minimumSIDLength

alphanum_upper == [i \in 1..36 |-> IF i <= 10 THEN 47 + i ELSE 54 + i]

\* const alphanum = "0123456789abcdefghijklmnopqrstuvwxyz"
alphanum == [i \in 1..36 |-> IF i <= 10 THEN 47 + i ELSE 86 + i]

\* draw is what rand.Int returns call by call, randOk whether the reads of
\* rand.Reader succeed.
randomChars(n, draw, randOk) ==
  IF n > 0 /\ ~randOk
    THEN [str |-> <<>>, err |-> "rand"]
    ELSE [str |-> [i \in 1..n |-> alphanum[draw[i] + 1]], err |-> Nil]

isValidSessionID_lengthOnly(sid, idLength) ==
  Len(sid) = idLength

isValidSessionID_from47(sid, idLength) ==
  /\ Len(sid) = idLength
  /\ \A i \in 1..Len(sid) :
       \/ 47 <= sid[i] /\ sid[i] <= 57
       \/ 97 <= sid[i] /\ sid[i] <= 122

isValidSessionID(sid, idLength) ==
  /\ Len(sid) = idLength
  /\ \A i \in 1..Len(sid) :
       \/ 48 <= sid[i] /\ sid[i] <= 57
       \/ 97 <= sid[i] /\ sid[i] <= 122

load(s, sid, idLength, draw, randOk, t) ==
  LET gen == ~isValidSessionID(sid, idLength)
      rc == randomChars(idLength, draw, randOk)
  IN IF gen /\ rc.err # Nil
       THEN [s |-> s, ret |-> 0, created |-> FALSE, err |-> "new ID"]
       ELSE LET r == memoryStore_Read(s, IF gen THEN rc.str ELSE sid, t)
            IN [s |-> r.s, ret |-> r.ret, created |-> gen, err |-> Nil]

\* The values a request's cookie may carry: none, "aa1", "aa2", "ab3", "aA1",
\* "aa" and "aa11".
LoadCandidates ==
  {<<>>, SidA, SidB, SidC, <<97, 65, 49>>, <<97, 97>>, <<97, 97, 49, 49>>}

\* The draws of the random source: "aa1", "aa2" and "z09".
Draws == {<<10, 10, 1>>, <<10, 10, 2>>, <<35, 0, 9>>}

Load(cand, draw, randOk) ==
  LET r == load(Store, cand, IDLength, draw, randOk, now)
  IN /\ backend = MemoryKind
     /\ r.s.nObj <= MaxObjs
     /\ SetStore(r.s)
     /\ issued' = Restrict(issued, DOMAIN r.s.index)
     /\ last' = [op |-> "load", cand |-> cand, err |-> r.err, created |-> r.created,
                 ret |-> r.ret,
                 valid |-> isValidSessionID(cand, IDLength),
                 existed |-> memoryStore_Exist(Store, cand)]
     /\ UNCHANGED <<now, backend, dbVars, concVars, mgrVars>>

NextLoad ==
  \/ \E cand \in LoadCandidates, draw \in Draws, randOk \in BOOLEAN : Load(cand, draw, randOk)
  \/ \E sid \in MemSIDs : Destroy(sid)
  \/ \E c \in BOOLEAN : GC(c)
  \/ \E o \in 1..MaxObjs, k \in UserKeys, v \in Vals : SessionSet(o, k, v)
  \/ Tick

SpecLoad == InitConc /\ [][NextLoad]_vars

\* C1: load adopts the candidate ID, reading it and reporting
\* created = false, only when the candidate is structurally valid and the
\* store has an entry for it; in every other case, a valid candidate the
\* store does not know included, it generates a fresh ID, reads that and
\* reports created = true.
C1_LoadAdoptsOnlyExisting ==
  (last.op = "load" /\ last.err = Nil) =>
    /\ last.created <=> ~(last.valid /\ last.existed)
    /\ ~last.created => sess[last.ret].sid = last.cand


\* C11: on a store that implements Touch, Touch(id) leaves the payload of
\* id and of every other entry as it was, and for an id the store has no
\* entry for it returns no error and creates no entry.
C11_TouchFrame ==
  /\ backend = MemoryKind =>
       \A sid \in MemSIDs :
         LET s1 == memoryStore_Touch(Store, sid, now)
         IN /\ DOMAIN s1.index = DOMAIN index
            /\ \A k \in DOMAIN index : s1.sess[s1.index[k]].data = sess[index[k]].data
  /\ backend \in TouchKinds =>
       \A sid \in CallSIDs :
         LET r == Store_Touch(backend, DB, sid, now, "ok")
         IN /\ r.err = Nil
            /\ Visible(r.db) = Visible(DB)
            /\ \A k \in Visible(DB) : r.db.rows[k].data = rows[k].data


\* ======================================================================
\* The Sessioner middleware over the default in-memory store, one request
\* at a time: session.go lines 171-195.  A request is read and loaded
\* (Begin), its handler then works on the session, and the session is saved
\* when the handler returns (End).  The clock and the GC goroutine's sweeps
\* go on during a request.
\*
\* req is the request being served: the session object obj it was given
\* and the ID key of that session.  jar is every ID a response has handed
\* to a client.  Right after Begin, last holds the ID cand the request
\* carried, whether a response had issued it, what the store held for cand
\* before the load (pre), load's created, the Set-Cookie values of the
\* response (cookie), the Flash mapped for the handler (flash) and the
\* flash the session was due (expFlash).
\*
\* ghost is history: for every ID a request was served under, the time at
\* of the latest such request, the object obj it was served, the flash
\* value pending on that object, and per key the value a later Get is
\* expected to return ("?" where nothing is expected): loose keeps the
\* expectation while no interval longer than the lifetime passes between
\* requests, strict while every interval is shorter than the lifetime.
\* ======================================================================
NoPrediction == [k \in UserKeys |-> "?"]

GhostBegin(g, sid, o, t) ==
  IF sid \in DOMAIN g
    THEN LET e == g[sid]
             gap == t - e.at
         IN MapPut(g, sid,
                   [at |-> t, obj |-> o,
                    loose |-> IF gap <= MemLifetime THEN e.loose ELSE NoPrediction,
                    strict |-> IF gap < MemLifetime THEN e.strict ELSE NoPrediction,
                    flash |-> Nil])
    ELSE MapPut(g, sid, [at |-> t, obj |-> o, loose |-> NoPrediction,
                         strict |-> NoPrediction, flash |-> Nil])

GhostForget(g, sid) ==
  IF sid \in DOMAIN g
    THEN [g EXCEPT ![sid].loose = NoPrediction, ![sid].strict = NoPrediction,
                   ![sid].flash = Nil, ![sid].obj = 0]
    ELSE g

\* The flash a request served object o under sid is due.
GhostFlash(g, sid, o) ==
  IF sid \in DOMAIN g /\ g[sid].obj = o THEN g[sid].flash ELSE Nil

\* The default ReadIDFunc hands over the cookie's value, "" without one.
ReadIDFunc(cookie) == cookie

\* The default WriteIDFunc: the Set-Cookie values it adds to the response.
WriteIDFunc_always(sid, created) == {sid}

WriteIDFunc(sid, created) == IF ~created THEN {} ELSE {sid}

\* The middleware up to the handler: load, WriteIDFunc, then the flash is
\* read and deleted.
SessionerWith_keepFlash(s, r) ==
  IF r.err # Nil
    THEN [s |-> s, obj |-> 0, sid |-> <<>>, created |-> FALSE, err |-> r.err,
          cookie |-> {}, flash |-> Nil]
    ELSE [s |-> r.s, obj |-> r.ret, sid |-> r.s.sess[r.ret].sid,
          created |-> r.created, err |-> Nil,
          cookie |-> WriteIDFunc(r.s.sess[r.ret].sid, r.created),
          flash |-> BaseSession_Get(r.s, r.ret, flashKey)]

\* r is what load returned.
SessionerWith(s, r) ==
  IF r.err # Nil
    THEN [s |-> s, obj |-> 0, sid |-> <<>>, created |-> FALSE, err |-> r.err,
          cookie |-> {}, flash |-> Nil]
    ELSE [s |-> BaseSession_Delete(r.s, r.ret, flashKey),
          obj |-> r.ret, sid |-> r.s.sess[r.ret].sid,
          created |-> r.created, err |-> Nil,
          cookie |-> WriteIDFunc(r.s.sess[r.ret].sid, r.created),
          flash |-> BaseSession_Get(r.s, r.ret, flashKey)]

Sessioner(s, cookie, draw, randOk, t) ==
  SessionerWith(s, load(s, ReadIDFunc(cookie), IDLength, draw, randOk, t))

\* The cookies a request may carry: none, or an ID a response has issued.
ReqCandidates == jar \cup {<<>>}

\* The draws of the random source for a request: "aa1" and "z09".
ReqDraws == {<<10, 10, 1>>, <<35, 0, 9>>}

\* A sweep of the GC goroutine.
Sweep ==
  /\ backend = MemoryKind
  /\ SetStore(memoryStore_GC(Store, now, FALSE))
  /\ last' = NoOp
  /\ UNCHANGED <<now, backend, dbVars, issued, concVars, mgrVars>>

\* What Begin does with the outcome r of the middleware's first part.
BeginWith(r, cand) ==
  /\ backend = MemoryKind
  /\ req.phase = "none"
  /\ r.s.nObj <= MaxObjs
  /\ SetStore(r.s)
  /\ IF r.err # Nil
       THEN /\ last' = [op |-> "panic", err |-> r.err]
            /\ UNCHANGED <<req, jar, ghost>>
       ELSE /\ req' = [phase |-> "handler", obj |-> r.obj, key |-> r.sid]
            /\ jar' = jar \cup r.cookie
            /\ ghost' = GhostBegin(ghost, r.sid, r.obj, now)
            /\ last' = [op |-> "Begin", cand |-> cand,
                        issued |-> cand \in jar,
                        pre |-> ReadPre(Store, cand, now),
                        created |-> r.created, cookie |-> r.cookie,
                        flash |-> r.flash,
                        expFlash |-> GhostFlash(ghost, r.sid, r.obj)]
  /\ UNCHANGED <<now, backend, dbVars, issued, concVars, sch>>

Begin(cand, draw, randOk) ==
  BeginWith(Sessioner(Store, cand, draw, randOk, now), cand)

InHandler == req.phase = "handler" /\ req.obj \in DOMAIN sess

HSet(k, v) ==
  /\ InHandler
  /\ sess[req.obj].data[k] # v
  /\ SetStore(BaseSession_Set(Store, req.obj, k, v))
  /\ UNCHANGED req
  /\ ghost' = [ghost EXCEPT ![req.key].loose[k] = v, ![req.key].strict[k] = v]
  /\ last' = NoOp
  /\ UNCHANGED <<now, backend, dbVars, issued, concVars, jar, sch>>

HDelete(k) ==
  /\ InHandler
  /\ sess[req.obj].data[k] # Nil
  /\ SetStore(BaseSession_Delete(Store, req.obj, k))
  /\ UNCHANGED req
  /\ ghost' = [ghost EXCEPT ![req.key].loose[k] = "?", ![req.key].strict[k] = "?"]
  /\ last' = NoOp
  /\ UNCHANGED <<now, backend, dbVars, issued, concVars, jar, sch>>

HFlush ==
  /\ InHandler
  /\ sess[req.obj].data # EmptyData
  /\ SetStore(BaseSession_Flush(Store, req.obj))
  /\ UNCHANGED req
  /\ ghost' = [GhostForget(ghost, req.key) EXCEPT ![req.key].obj = req.obj]
  /\ last' = NoOp
  /\ UNCHANGED <<now, backend, dbVars, issued, concVars, jar, sch>>

HSetFlash(v) ==
  /\ InHandler
  /\ sess[req.obj].data[flashKey] # v
  /\ SetStore(BaseSession_SetFlash(Store, req.obj, v))
  /\ UNCHANGED req
  /\ ghost' = [ghost EXCEPT ![req.key].flash = v]
  /\ last' = NoOp
  /\ UNCHANGED <<now, backend, dbVars, issued, concVars, jar, sch>>

\* The handler destroys its own session: store.Destroy(ctx, session.ID()).
HDestroy ==
  /\ InHandler
  /\ SetStore(memoryStore_Destroy(Store, sess[req.obj].sid))
  /\ UNCHANGED req
  /\ ghost' = GhostForget(ghost, req.key)
  /\ last' = NoOp
  /\ UNCHANGED <<now, backend, dbVars, issued, concVars, jar, sch>>

\* The handler has returned: store.Save, session.go lines 191-194.
End ==
  /\ backend = MemoryKind
  /\ req.phase = "handler"
  /\ SetStore(IF req.obj \in DOMAIN sess THEN memoryStore_Save(Store, req.obj) ELSE Store)
  /\ req' = NoReq
  /\ last' = NoOp
  /\ UNCHANGED <<now, backend, dbVars, issued, concVars, jar, ghost, sch>>

NextReq ==
  \/ \E cand \in ReqCandidates, draw \in ReqDraws, randOk \in BOOLEAN : Begin(cand, draw, randOk)
  \/ \E k \in UserKeys, v \in Vals : HSet(k, v)
  \/ \E k \in UserKeys : HDelete(k)
  \/ HFlush
  \/ \E v \in Vals : HSetFlash(v)
  \/ HDestroy
  \/ End
  \/ Sweep
  \/ Tick

SpecReq == InitConc /\ [][NextReq]_vars


\* ======================================================================
\* Properties of the middleware under SpecReq
\* ======================================================================

C13_KnownIDIsReused ==
  (last.op = "Begin" /\ last.issued /\ last.pre = "live") =>
    /\ req.phase = "handler"
    /\ sess[req.obj].sid = last.cand
    /\ ~last.created
    /\ last.cookie = {}

C13_Witness ==
  /\ last.op = "Begin"
  /\ last.issued
  /\ last.pre = "live"
  /\ sess[req.obj].sid = last.cand
  /\ sess[req.obj].data # EmptyData

\* C14: the value given to SetFlash during one request is the Flash of the
\* next request on the same session and is no longer in the session's data
\* when that request's handler starts, so the request after it gets nil;
\* a request on a session with no flash set gets nil.
C14_FlashOnce ==
  /\ last.op = "Begin" =>
       /\ last.flash = last.expFlash
       /\ BaseSession_Get(Store, req.obj, flashKey) = Nil
  /\ InHandler => BaseSession_Get(Store, req.obj, flashKey) = ghost[req.key].flash

\* A request has just been handed the flash the request before it set.
C14_Witness ==
  /\ last.op = "Begin"
  /\ last.flash \in Vals
  /\ last.expFlash \in Vals
  /\ BaseSession_Get(Store, req.obj, flashKey) = Nil


\* ======================================================================
\* Identifiers: randomChars, isValidSessionID and BaseSession.RegenerateID
\* on their own.  The inputs are drawn at the start: req holds a session
\* whose ID is the string s, and a length n.  Every action is one call on
\* those inputs (or one step of RegenerateID, whose call of the identifier
\* writer is a step of its own); last holds what the call returned and jar
\* what the identifier writer was given during the latest call.
\* ======================================================================
MaxIDLen == 2

\* The bytes of the input strings: . / 0 9 : A ` a z {
Bytes == {46, 47, 48, 57, 58, 65, 96, 97, 122, 123}

Strings == UNION {[1..m -> Bytes] : m \in 0..MaxIDLen}

\* What rand.Int(rand.Reader, 36) returns, call by call.
DrawVals == {0, 9, 10, 35}

DrawSeqs == [1..MaxIDLen -> DrawVals]

\* The effects of RegenerateID in the order they happen, and its result.
BaseSession_RegenerateID_assignFirst(sid, draw, randOk) ==
  LET rc == randomChars(Len(sid), draw, randOk)
  IN IF rc.err # Nil
       THEN [err |-> "new ID", todo |-> <<>>]
       ELSE [err |-> Nil,
             todo |-> <<[ev |-> "assign", sid |-> rc.str],
                        [ev |-> "idWriter", sid |-> rc.str]>>]

BaseSession_RegenerateID(sid, draw, randOk) ==
  LET rc == randomChars(Len(sid), draw, randOk)
  IN IF rc.err # Nil
       THEN [err |-> "new ID", todo |-> <<>>]
       ELSE [err |-> Nil,
             todo |-> <<[ev |-> "idWriter", sid |-> rc.str],
                        [ev |-> "assign", sid |-> rc.str]>>]

InitID ==
  /\ now = 0
  /\ backend = MemoryKind
  /\ heap = <<>>
  /\ index = <<>>
  /\ sess = <<>>
  /\ nObj = 0
  /\ rows = <<>>
  /\ dirs = {}
  /\ fresh = <<>>
  /\ issued = <<>>
  /\ last = NoOp
  /\ lock = 0
  /\ pc = [p \in Procs |-> "idle"]
  /\ rd = [p \in Procs |-> SidA]
  /\ gcpc = "idle"
  /\ ctxDone = FALSE
  /\ req \in {[phase |-> "unit", s |-> s, n |-> n, old |-> s, todo |-> <<>>] :
                s \in Strings, n \in 0..MaxIDLen}
  /\ jar = {}
  /\ ghost = <<>>
  /\ sch = NoSched

idFrame == <<now, backend, memVars, dbVars, issued, concVars, ghost, sch>>

RandomChars(draw, randOk) ==
  LET rc == randomChars(req.n, draw, randOk)
  IN /\ req.phase = "unit"
     /\ last' = [op |-> "randomChars", n |-> req.n, str |-> rc.str, err |-> rc.err]
     /\ jar' = {}
     /\ UNCHANGED <<idFrame, req>>

IsValidSessionID ==
  /\ req.phase = "unit"
  /\ last' = [op |-> "isValidSessionID", s |-> req.s, n |-> req.n,
              ret |-> isValidSessionID(req.s, req.n)]
  /\ jar' = {}
  /\ UNCHANGED <<idFrame, req>>

\* RegenerateID is called: the new ID is generated under the session's lock.
RegenerateID(draw, randOk) ==
  LET r == BaseSession_RegenerateID(req.s, draw, randOk)
  IN /\ req.phase = "unit"
     /\ jar' = {}
     /\ IF r.err # Nil
          THEN /\ UNCHANGED req
               /\ last' = [op |-> "RegenerateID", err |-> r.err, old |-> req.s]
          ELSE /\ req' = [req EXCEPT !.phase = "regen", !.old = req.s, !.todo = r.todo]
               /\ last' = NoOp
     /\ UNCHANGED idFrame

\* The next effect of the call in progress; after the last one it returns.
RegenerateIDStep ==
  LET e == Head(req.todo)
      s1 == IF e.ev = "assign" THEN e.sid ELSE req.s
      done == Len(req.todo) = 1
  IN /\ req.phase = "regen"
     /\ jar' = IF e.ev = "idWriter" THEN jar \cup {e.sid} ELSE jar
     /\ req' = [req EXCEPT !.s = s1, !.todo = Tail(req.todo),
                           !.old = IF done THEN s1 ELSE req.old,
                           !.phase = IF done THEN "unit" ELSE "regen"]
     /\ last' = IF done
                  THEN [op |-> "RegenerateID", err |-> Nil, oldLen |-> Len(req.old)]
                  ELSE NoOp
     /\ UNCHANGED idFrame

NextID ==
  \/ \E draw \in DrawSeqs, randOk \in BOOLEAN : RandomChars(draw, randOk)
  \/ IsValidSessionID
  \/ \E draw \in DrawSeqs, randOk \in BOOLEAN : RegenerateID(draw, randOk)
  \/ RegenerateIDStep

SpecID == InitID /\ [][NextID]_vars

\* The characters '0'..'9' and 'a'..'z'.
Alphabet == (48..57) \cup (97..122)

\* C15: RegenerateID generates an ID of the length of the current one and
\* gives it to the identifier writer before the session's own ID is
\* replaced; once it has returned, ID() is the new ID; when the generation
\* fails it returns an error, nothing is written and the ID is unchanged.
C15_RegenerateID ==
  /\ req.phase = "regen" =>
       /\ req.s # req.old => req.s \in jar
       /\ \A w \in jar : Len(w) = Len(req.old) /\ \A i \in 1..Len(w) : w[i] \in Alphabet
  /\ (last.op = "RegenerateID" /\ last.err = Nil) =>
       /\ jar = {req.s}
       /\ Len(req.s) = last.oldLen
  /\ (last.op = "RegenerateID" /\ last.err # Nil) =>
       /\ jar = {}
       /\ req.s = last.old

\* The writer has been given a new ID and the session still has the old one.
C15_Witness ==
  /\ req.phase = "regen"
  /\ req.s = req.old
  /\ jar # {}
  /\ req.s \notin jar

\* C16: for every length n, an ID randomChars(n) returns has length n,
\* consists of characters of the alphabet only, and satisfies
\* isValidSessionID(id, n).
C16_GeneratedIDsAreValid ==
  (last.op = "randomChars" /\ last.err = Nil) =>
    /\ Len(last.str) = last.n
    /\ \A i \in 1..Len(last.str) : last.str[i] \in Alphabet
    /\ isValidSessionID(last.str, last.n)

C16_Witness ==
  /\ last.op = "randomChars"
  /\ last.err = Nil
  /\ last.n = MaxIDLen
  /\ \E i \in 1..Len(last.str) : last.str[i] = 122

\* C17: isValidSessionID(s, n) is true exactly when len(s) = n and every
\* byte of s is in '0'..'9' or 'a'..'z'; a string of another length, one
\* with an upper-case letter and one with '.' or '/' are rejected.
C17_ValidIffLengthAndAlphabet ==
  last.op = "isValidSessionID" =>
    /\ last.ret <=> (Len(last.s) = last.n /\ \A i \in 1..Len(last.s) : last.s[i] \in Alphabet)
    /\ Len(last.s) # last.n => ~last.ret
    /\ (\E i \in 1..Len(last.s) : last.s[i] \in {46, 47} \cup (65..90)) => ~last.ret

\* A string of the right length is rejected for its '/'.
C17_Witness ==
  /\ last.op = "isValidSessionID"
  /\ ~last.ret
  /\ Len(last.s) = last.n
  /\ \E i \in 1..Len(last.s) : last.s[i] = 47
  /\ \A i \in 1..Len(last.s) : last.s[i] \in Alphabet \cup {47}


\* ======================================================================
\* The GC goroutine of manager.startGC: unnamed/part_006 lines 55-74.
\* sch.pc is where the goroutine is: about to call store.GC ("gc"), in the
\* call ("sweeping"), at the select ("select") or returned ("done").
\* sch.tick tells whether ticker.C holds a tick (its buffer has room for
\* one), sch.ticker whether the ticker runs, sch.stop how far the caller's
\* send on the unbuffered stop channel is ("none", "sending" once the
\* caller blocks in it, "sent" once the goroutine has received it), and
\* sch.during whether the send began while a sweep was in progress.
\* After a sweep, last holds its error and how often errFunc was called.
\* ======================================================================

\* if err != nil { errFunc(err) }: the number of calls of errFunc.
startGC_errFunc_always(err) == 1

startGC_errFunc(err) == IF err # Nil THEN 1 ELSE 0

\* The cases a select may take: one of those that can proceed, chosen at
\* random; it blocks while there is none.
select_tickFirst(tickReady, stopReady) ==
  IF tickReady THEN {"tick"} ELSE IF stopReady THEN {"stop"} ELSE {}

select(tickReady, stopReady) ==
  {c \in {"stop", "tick"} : (c = "stop" /\ stopReady) \/ (c = "tick" /\ tickReady)}

\* Where the loop goes after the case c: return, or the next iteration.
startGC_case_loops(c) == "gc"

startGC_case(c) == IF c = "stop" THEN "done" ELSE "gc"

schFrame == <<now, backend, issued, concVars, req, jar, ghost>>

StartGC ==
  /\ sch = NoSched
  /\ sch' = [pc |-> "gc", tick |-> FALSE, ticker |-> TRUE, stop |-> "none",
             during |-> FALSE]
  /\ last' = NoOp
  /\ UNCHANGED <<schFrame, memVars, dbVars>>

GCBegin ==
  /\ sch.pc = "gc"
  /\ sch' = [sch EXCEPT !.pc = "sweeping"]
  /\ last' = NoOp
  /\ UNCHANGED <<schFrame, memVars, dbVars>>

\* store.GC returns; errFunc is called with its error.
GCReturn(io) ==
  LET r == IF backend = MemoryKind
             THEN [db |-> DB, err |-> Nil]
             ELSE Store_GC(backend, DB, now, io)
  IN /\ sch.pc = "sweeping"
     /\ SetStore(IF backend = MemoryKind THEN memoryStore_GC(Store, now, FALSE) ELSE Store)
     /\ SetDB(r.db)
     /\ fresh' = Restrict(fresh, DOMAIN r.db.rows)
     /\ sch' = [sch EXCEPT !.pc = "select"]
     /\ last' = [op |-> "sweep", err |-> r.err, errFunc |-> startGC_errFunc(r.err)]
     /\ UNCHANGED schFrame

\* The ticker puts a tick into ticker.C, unless one is waiting there.
TickerFire ==
  /\ sch.pc # "none"
  /\ sch.ticker
  /\ ~sch.tick
  /\ sch' = [sch EXCEPT !.tick = TRUE]
  /\ UNCHANGED <<schFrame, memVars, dbVars, last>>

\* The holder of the stop channel starts stop <- struct{}{}.
StopSend ==
  /\ sch.pc # "none"
  /\ sch.stop = "none"
  /\ sch' = [sch EXCEPT !.stop = "sending", !.during = (sch.pc = "sweeping")]
  /\ UNCHANGED <<schFrame, memVars, dbVars, last>>

\* case <-stop: ticker.Stop(); return
SelectStop ==
  /\ sch.pc = "select"
  /\ "stop" \in select(sch.tick, sch.stop = "sending")
  /\ sch' = [sch EXCEPT !.stop = "sent", !.ticker = FALSE, !.pc = startGC_case("stop")]
  /\ last' = NoOp
  /\ UNCHANGED <<schFrame, memVars, dbVars>>

\* case <-ticker.C:
SelectTick ==
  /\ sch.pc = "select"
  /\ "tick" \in select(sch.tick, sch.stop = "sending")
  /\ sch' = [sch EXCEPT !.tick = FALSE, !.pc = startGC_case("tick")]
  /\ last' = NoOp
  /\ UNCHANGED <<schFrame, memVars, dbVars>>

NextGC ==
  \/ StartGC
  \/ GCBegin
  \/ \E io \in IOs : GCReturn(io)
  \/ TickerFire
  \/ StopSend
  \/ SelectStop
  \/ SelectTick

SpecGC == Init /\ [][NextGC]_vars

\* Every call of store.GC returns, and a select that can take the stop
\* case again and again takes it at some point (the choice among the cases
\* that can proceed is uniformly random).
FairSpecGC ==
  /\ SpecGC
  /\ WF_vars(StartGC)
  /\ WF_vars(GCBegin)
  /\ WF_vars(\E io \in IOs : GCReturn(io))
  /\ SF_vars(SelectStop)

\* C18: in the GC loop every error store.GC returns is given to errFunc
\* exactly once and the loop goes on to the select for the next tick; an
\* error never ends the loop, and errFunc is not called for a sweep that
\* returned nil.
C18_ErrorsReportedLoopGoesOn ==
  /\ last.op = "sweep" =>
       /\ last.errFunc = (IF last.err # Nil THEN 1 ELSE 0)
       /\ sch.pc = "select"
       /\ sch.ticker
  /\ (sch.pc = "done") => sch.stop = "sent"

\* A sweep has failed and the goroutine waits for the next tick.
C18_Witness ==
  /\ last.op = "sweep"
  /\ last.err # Nil
  /\ last.errFunc = 1
  /\ sch.pc = "select"
  /\ sch.stop = "none"

\* C19: once the goroutine has received the stop signal it does not call
\* store.GC again; a sweep in progress when the stop is requested runs to
\* its end, and the stop is received only at the select after that sweep.
C19_StopOnlyAtSelect ==
  [][sch.pc # "none" =>
       /\ sch.stop = "sent" => sch'.pc = "done"
       /\ (sch.pc = "sweeping" /\ sch.stop = "sending") =>
            (sch'.pc \in {"sweeping", "select"} /\ sch'.stop = "sending")
       /\ (sch.stop # "sent" /\ sch'.stop = "sent") =>
            (sch.pc = "select" /\ sch'.pc = "done")]_vars

\* The goroutine has returned after a stop requested during a sweep.
C19_Witness ==
  /\ sch.pc = "done"
  /\ sch.stop = "sent"
  /\ sch.during

\* C20: provided every store.GC call returns, a send on the stop channel
\* completes: the goroutine receives the stop, stops its ticker and
\* returns, however often the ticker fires.
C20_StopCompletes ==
  (sch.pc # "none" /\ sch.stop = "sending")
    ~> (sch.pc = "done" /\ sch.stop = "sent" /\ ~sch.ticker)

\* The goroutine has returned although a tick was waiting at its select.
C20_Witness ==
  /\ sch.pc = "done"
  /\ sch.stop = "sent"
  /\ ~sch.ticker
  /\ sch.tick

\* C21: when a tick and a stop request are both ready at the same select,
\* the stop is taken: with a stop request pending at a select, the goroutine
\* makes no further call of store.GC.
C21_StopWinsTies ==
  [][(sch.pc = "select" /\ sch.stop = "sending") => sch'.pc # "gc"]_vars

\* ======================================================================
\* GC with a context that is cancelled while it runs.  n is the number of
\* eviction steps GC gets to start before a check of ctx.Done() finds the
\* context cancelled; n = 0 is a context cancelled on entry.
\* ======================================================================
RECURSIVE memoryStore_GCCancelAt_ignoresCancel(_, _, _)
memoryStore_GCCancelAt_ignoresCancel(s, t, n) ==
  LET r == memoryStore_GCBody(s, t)
  IN IF r.done THEN r.s ELSE memoryStore_GCCancelAt_ignoresCancel(r.s, t, n)

\* memory.go lines 167-195: the select on ctx.Done() opens every iteration.
RECURSIVE memoryStore_GCCancelAt(_, _, _)
memoryStore_GCCancelAt(s, t, n) ==
  IF n = 0
    THEN s
    ELSE LET r == memoryStore_GCBody(s, t)
         IN IF r.done THEN r.s ELSE memoryStore_GCCancelAt(r.s, t, n - 1)

\* filepath.WalkDir visits the files in lexical order of their paths.
LexLess(a, b) ==
  \E i \in 1..Len(a) : a[i] < b[i] /\ \A j \in 1..(i - 1) : a[j] = b[j]

Visited(db, n) ==
  {x \in DOMAIN db.rows : Cardinality({y \in DOMAIN db.rows : LexLess(y, x)}) < n}

\* fileStore.GC: the walk function returns ctx.Err() at the first entry it
\* is called for after the cancellation, the walk ends with that error, and
\* GC returns nil for it.
fileStore_GCCancelAt(db, t, n) ==
  OpOk([db EXCEPT !.rows =
          [k \in {x \in DOMAIN @ : x \notin Visited(db, n) \/ @[x].stamp + DBLifetime > t} |-> @[k]]])

C24_EncodeErrorWritesNothing ==
  backend \in DBKinds =>
    \A sid \in CallSIDs, data \in UserData, io \in IOs :
      LET r == Store_Save(backend, DB, NewBaseSessionWithData(sid, data), now, "fail", io)
      IN /\ r.err # Nil
         /\ Len(sid) >= minimumSIDLength => r.err = "encode"
         /\ r.db.dirs = dirs
         /\ IF backend = "redis"
              THEN r.db.rows = redisKeys(DB, now).rows
              ELSE r.db.rows = rows

C24_Witness ==
  /\ backend \in DBKinds
  /\ last.op = "Save"
  /\ last.err = "encode"
  /\ last.sid \in Visible(DB)
  /\ rows[last.sid].data # GobEncoder(EmptyData)

\* ------------------------------------------------------------------ C26
\* C26: on every backend Exist(id) never fails: when the underlying lookup
\* returns an error Exist returns false, and it returns true only when an
\* entry for id was found.
C26_ExistFalseOnError ==
  /\ backend = MemoryKind =>
       \A sid \in MemSIDs : memoryStore_Exist(Store, sid) => sid \in DOMAIN index
  /\ backend \in DBKinds =>
       \A sid \in CallSIDs :
         /\ ~Store_Exist(backend, DB, sid, now, "fail")
         /\ Store_Exist(backend, DB, sid, now, "ok") => sid \in Visible(DB)

\* ============================================== the middleware and errors
\* Sessioner's request handler (session.go) over a persistent store whose
\* calls can fail: load, the handler, then store.Save.

contextCanceled == "context.Canceled"

\* What the connection answers to a call: "canceled" is a failure whose
\* error is context.Canceled.  The file store takes no context.
MWIOs == IF backend = "file" THEN IOs ELSE IOs \cup {"canceled"}

\* The errors a store reports without an answer of the connection.
LocalErrors == {"encode", "decode", "ErrMinimumSIDLength", "new ID"}

\* errors.Cause(err) of an error wrapped with errors.Wrap: the innermost
\* error, here the one of the connection unless the error is local.
errors_Cause(err, io) ==
  IF err = Nil
    THEN Nil
    ELSE IF err \notin LocalErrors /\ io = "canceled" THEN contextCanceled ELSE err

\* manager.load over a persistent store.
manager_load(kind, db, sid, idLength, draw, randOk, t, io) ==
  LET gen == ~isValidSessionID(sid, idLength)
      rc == randomChars(idLength, draw, randOk)
  IN IF gen /\ rc.err # Nil
       THEN [db |-> db, sess |-> NoSession, created |-> FALSE, err |-> "new ID", cause |-> rc.err]
       ELSE LET r == Store_Read(kind, db, IF gen THEN rc.str ELSE sid, t, io)
            IN [db |-> r.db, sess |-> r.sess, created |-> gen /\ r.err = Nil,
                err |-> r.err, cause |-> errors_Cause(r.err, io)]

\* What the middleware does with the error of load.
Sessioner_afterLoad(err, cause) ==
  IF err # Nil
    THEN IF cause = contextCanceled THEN "422" ELSE "panic"
    ELSE "next"

Sessioner_afterSave_panics(err, cause) ==
  IF err # Nil THEN "panic" ELSE "return"

\* What the middleware does with the error of store.Save.
Sessioner_afterSave(err, cause) ==
  IF err # Nil /\ cause # contextCanceled THEN "panic" ELSE "return"

\* The bytes of an Encoder whose output the Decoder rejects.
Junk == <<"junk">>

\* The draws of the random source: "aa1" and "ab3".
MWDraws == {<<10, 10, 1>>, <<10, 11, 3>>}

MWCandidates == DBSIDs \cup {<<>>}

mwFrame == <<backend, memVars, issued, concVars, jar, ghost, sch>>

\* A request arrives: load, and on success WriteIDFunc and the flash.
MWBegin(cand, draw, randOk, io) ==
  LET r == manager_load(backend, DB, ReadIDFunc(cand), IDLength, draw, randOk, now, io)
      out == Sessioner_afterLoad(r.err, r.cause)
  IN /\ req.phase \in {"none", "done"}
     /\ SetDB(r.db)
     /\ fresh' = Restrict(fresh, DOMAIN r.db.rows)
     /\ req' = IF out = "next"
                 THEN [phase |-> "handler",
                       sess |-> [r.sess EXCEPT !.data[flashKey] = Nil]]
                 ELSE [phase |-> "done", status |-> IF out = "422" THEN 422 ELSE 500,
                       panic |-> out = "panic", handler |-> FALSE, saved |-> FALSE]
     /\ last' = [op |-> "load", sid |-> cand, err |-> r.err, cause |-> r.cause,
                 had |-> cand \in DOMAIN fresh /\ now < fresh[cand].at + DBLifetime,
                 junk |-> cand \in DOMAIN rows /\ ~GobDecodable(rows[cand].data)]
     /\ UNCHANGED <<now, mwFrame>>

\* c.Next(): the handler changes the session.
MWHandler(data) ==
  /\ req.phase = "handler"
  /\ req' = [phase |-> "save", sess |-> [req.sess EXCEPT !.data = data]]
  /\ last' = NoOp
  /\ UNCHANGED <<now, dbVars, mwFrame>>

\* The handler has returned: store.Save.
MWEnd(enc, io) ==
  LET r == Store_Save(backend, DB, req.sess, now, enc, io)
      cause == errors_Cause(r.err, io)
      out == Sessioner_afterSave(r.err, cause)
  IN /\ req.phase = "save"
     /\ SetDB(r.db)
     /\ fresh' = IF r.err = Nil
                   THEN MapPut(Restrict(fresh, DOMAIN r.db.rows), req.sess.sid,
                               [at |-> now, by |-> "Save", data |-> req.sess.data])
                   ELSE Restrict(fresh, DOMAIN r.db.rows)
     /\ req' = [phase |-> "done", status |-> IF out = "panic" THEN 500 ELSE 200,
                panic |-> out = "panic", handler |-> TRUE, saved |-> TRUE]
     /\ last' = [op |-> "save", sid |-> req.sess.sid, err |-> r.err, cause |-> cause]
     /\ UNCHANGED <<now, mwFrame>>

\* Another program saves sid through an Encoder whose bytes this store's
\* Decoder rejects.
MWForeignSave(sid) ==
  LET r == Store_Save(backend, DB, NewBaseSession(sid), now, "ok", "ok")
  IN /\ r.err = Nil
     /\ rows' = [r.db.rows EXCEPT ![sid].data = Junk]
     /\ dirs' = r.db.dirs
     /\ fresh' = MapPut(Restrict(fresh, DOMAIN r.db.rows), sid,
                        [at |-> now, by |-> "Save", data |-> EmptyData])
     /\ last' = NoOp
     /\ UNCHANGED <<now, req, mwFrame>>

MWTick ==
  /\ now < DBMaxTime
  /\ now' = now + 1
  /\ last' = NoOp
  /\ UNCHANGED <<dbVars, req, mwFrame>>

InitMW ==
  /\ Init
  /\ backend \in DBKinds

NextMW ==
  \/ \E cand \in MWCandidates, draw \in MWDraws, randOk \in BOOLEAN, io \in MWIOs :
       MWBegin(cand, draw, randOk, io)
  \/ \E data \in UserData : MWHandler(data)
  \/ \E enc \in IOs, io \in MWIOs : MWEnd(enc, io)
  \/ \E sid \in DBSIDs : MWForeignSave(sid)
  \/ MWTick

SpecMW == InitMW /\ [][NextMW]_vars

\* ------------------------------------------------------------------ C23
\* C23: in the middleware an error of load or of the Save after the handler
\* whose cause is context.Canceled never panics: a cancelled load ends the
\* request with status 422 and neither the handler nor Save runs, a
\* cancelled Save is ignored; every other error of load or Save panics.
C23_CancelNeverPanics ==
  /\ (last.op = "load" /\ last.err # Nil) =>
       /\ req.phase = "done"
       /\ ~req.handler
       /\ ~req.saved
       /\ IF last.cause = contextCanceled
            THEN ~req.panic /\ req.status = 422
            ELSE req.panic
  /\ (last.op = "load" /\ last.err = Nil) => req.phase = "handler"
  /\ (last.op = "save" /\ last.err # Nil) =>
       /\ req.phase = "done"
       /\ req.panic <=> last.cause # contextCanceled
  /\ (last.op = "save" /\ last.err = Nil) => ~req.panic

C23_Witness ==
  /\ last.op = "save"
  /\ last.err # Nil
  /\ last.cause = contextCanceled
  /\ req.phase = "done"
  /\ ~req.panic

\* ------------------------------------------------------------------ C25
\* C25: in every persistent backend a Read that finds an unexpired entry
\* whose stored payload the decoder rejects returns the decode error and no
\* record, never an empty record for that identifier.
C25_DecodeErrorNoRecord ==
  \A sid \in DBSIDs :
    (/\ sid \in DOMAIN rows
     /\ sid \in DOMAIN fresh
     /\ now < fresh[sid].at + DBLifetime
     /\ ~GobDecodable(rows[sid].data)) =>
      LET r == Store_Read(backend, DB, sid, now, "ok")
      IN /\ r.err = "decode"
         /\ r.sess = NoSession
         /\ r.sess # NewBaseSession(sid)

C25_Witness ==
  /\ last.op = "load"
  /\ last.had
  /\ last.junk
  /\ last.err = "decode"
  /\ req.phase = "done"

\* ------------------------------------------------------------------ C27
\* C27: Read on an expired session wipes the data but preserves the record:
\* after Read(id) has found id expired, the store's entry for id, in heap
\* and index, is the session object the earlier Read returned, with an
\* empty payload and the last-access time set to the present.
C27_ExpiredReadKeepsObject ==
  [][\A sid \in MemSIDs :
       (/\ backend = MemoryKind
        /\ sid \in DOMAIN index
        /\ Expired(Store, sid, now)
        /\ last'.op = "Read"
        /\ last'.sid = sid) =>
         /\ sid \in DOMAIN index'
         /\ index'[sid] = index[sid]
         /\ heap'[sess'[index'[sid]].index + 1] = index[sid]
         /\ sess'[index'[sid]].data = EmptyData
         /\ sess'[index'[sid]].lastAccessedAt = now]_vars

\* =============================================== GC after three accesses
\* An in-memory store of lifetime EvLifetime: three records are read, each
\* once and at distinct times, and GC runs after the last one has expired.
EvLifetime == 2
\* The latest time of the last access, and the largest delay of the GC past
\* the expiry of the last record.
EvMaxAccess == 4
EvMaxEps == 3

EvStore == [Store EXCEPT !.lifetime = EvLifetime]

\* sid -> lastAccessedAt for the entries of s.
AccessTimes(s) == [sid \in DOMAIN s.index |-> s.sess[s.index[sid]].lastAccessedAt]

evFrame == <<backend, dbVars, issued, concVars, jar, ghost, sch>>

InitEv ==
  /\ Init
  /\ backend = MemoryKind

EvRead(sid) ==
  LET r == memoryStore_Read(EvStore, sid, now)
  IN /\ req.phase \in {"none", "reads"}
     /\ sid \notin DOMAIN index
     /\ req.phase = "reads" => now > req.at
     /\ SetStore(r.s)
     /\ req' = [phase |-> "reads", at |-> now]
     /\ last' = [op |-> "Read", sid |-> sid]
     /\ UNCHANGED <<now, evFrame>>

EvTick ==
  /\ req.phase \in {"none", "reads"}
  /\ IF DOMAIN index = MemSIDs
       THEN now < req.at + EvLifetime + EvMaxEps
       ELSE now < EvMaxAccess - (Cardinality(MemSIDs \ DOMAIN index) - 1)
  /\ now' = now + 1
  /\ last' = NoOp
  /\ UNCHANGED <<memVars, req, evFrame>>

\* store.GC at t3 + lifetime + eps, t3 being the time of the last access.
EvGC ==
  LET s1 == memoryStore_GC(EvStore, now, FALSE)
  IN /\ req.phase = "reads"
     /\ DOMAIN index = MemSIDs
     /\ now >= req.at + EvLifetime
     /\ SetStore(s1)
     /\ req' = [phase |-> "swept", at |-> req.at]
     /\ last' = [op |-> "GC", t3 |-> req.at, eps |-> now - req.at - EvLifetime,
                 accessed |-> AccessTimes(EvStore),
                 removed |-> DOMAIN index \ DOMAIN s1.index]
     /\ UNCHANGED <<now, evFrame>>

NextEv ==
  \/ \E sid \in MemSIDs : EvRead(sid)
  \/ EvTick
  \/ EvGC

SpecEv == InitEv /\ [][NextEv]_vars

\* ------------------------------------------------------------------ C28
\* C28: given records accessed at distinct times t1 < t2 < t3 and a lifetime
\* L, a GC invoked at t3 + L + eps (eps > 0) removes exactly the records
\* whose access time is <= t3 + eps - L.
C28_RemovesUpToT3PlusEpsMinusL ==
  (last.op = "GC" /\ last.eps > 0) =>
    last.removed = {sid \in DOMAIN last.accessed :
                      last.accessed[sid] <= last.t3 + last.eps - EvLifetime}

\* C28 (amended): a GC invoked at t3 + L + eps (eps >= 0) removes exactly the
\* records whose access time is <= t3 + eps, the time of the GC minus L:
\* all three records, the one accessed at t3 included, and heap and index
\* are empty afterwards.
C28_RemovesUpToT3PlusEps ==
  last.op = "GC" =>
    /\ last.removed = {sid \in DOMAIN last.accessed :
                         last.accessed[sid] <= last.t3 + last.eps}
    /\ last.removed = MemSIDs
    /\ heap = <<>>
    /\ index = <<>>

\* A GC has run less than a lifetime after the last record expired, over
\* three records accessed at three distinct times.
C28_Witness ==
  /\ last.op = "GC"
  /\ last.eps > 0
  /\ last.eps < EvLifetime
  /\ Cardinality({last.accessed[sid] : sid \in DOMAIN last.accessed}) = 3
  /\ last.removed = MemSIDs

\* ------------------------------------------------------------------ C29
\* C29: on a session record Get(k) returns the value of the most recent
\* Set(k, v) not followed by Delete(k) or Flush, and nil otherwise: Set(k, v)
\* makes Get(k) return v and Delete(k) makes it return nil, both leaving
\* every other key and every other session as they were, and Flush makes
\* Get return nil for every key.
C29_GetSetDeleteFlush ==
  \A o \in DOMAIN sess, k \in Keys :
    LET del == BaseSession_Delete(Store, o, k)
        flu == BaseSession_Flush(Store, o)
    IN /\ \A v \in Vals \cup {Nil} :
            LET set == BaseSession_Set(Store, o, k, v)
            IN /\ BaseSession_Get(set, o, k) = v
               /\ \A k2 \in Keys \ {k} :
                    BaseSession_Get(set, o, k2) = BaseSession_Get(Store, o, k2)
               /\ \A o2 \in DOMAIN sess \ {o} : set.sess[o2] = sess[o2]
               /\ BaseSession_Get(BaseSession_Delete(set, o, k), o, k) = Nil
               /\ BaseSession_Get(BaseSession_Flush(set, o), o, k) = Nil
       /\ BaseSession_Get(del, o, k) = Nil
       /\ \A k2 \in Keys \ {k} :
            BaseSession_Get(del, o, k2) = BaseSession_Get(Store, o, k2)
       /\ \A o2 \in DOMAIN sess \ {o} : del.sess[o2] = sess[o2] /\ flu.sess[o2] = sess[o2]
       /\ \A k2 \in Keys : BaseSession_Get(flu, o, k2) = Nil

\* A handler has set both keys of its session, which still holds them.
C29_Witness ==
  /\ InHandler
  /\ req.key \in DOMAIN ghost
  /\ ghost[req.key].strict["name"] = "flamego"
  /\ \A k \in Keys : BaseSession_Get(Store, req.obj, k) = "flamego"

\* ======================================================= option parsing
\* Sessioner's parseOptions (session.go) and the lifetime default of the
\* stores' Initers.  Durations are in ticks, TicksPerSecond to the second.
defaultIDLength == 16

\* The largest IDLength and the longest duration (in ticks) given as
\* options, besides the defaults themselves.
OptMaxIDLength == 4
OptMaxDuration == 3

Minute == 60 * TicksPerSecond

\* d.Seconds() < 1: the float64 d/Second + (d%Second)/1e9 is below 1
\* exactly for the durations shorter than a second, the negative included.
SecondsBelowOne(d) == d < TicksPerSecond

parseOptions_IDLength(n) ==
  IF n < minimumSIDLength THEN defaultIDLength ELSE n

parseOptions_GCInterval_zeroOnly(d) ==
  IF d = 0 THEN 5 * Minute ELSE d

parseOptions_GCInterval(d) ==
  IF SecondsBelowOne(d) THEN 5 * Minute ELSE d

Initer_Lifetime(d) ==
  IF SecondsBelowOne(d) THEN 3600 * TicksPerSecond ELSE d

OptIDLengths == (-1..OptMaxIDLength) \cup {defaultIDLength}
OptGCIntervals == (-1..OptMaxDuration) \cup {5 * Minute}
OptLifetimes == (-1..OptMaxDuration) \cup {3600 * TicksPerSecond}

optFrame == <<now, backend, memVars, dbVars, issued, concVars, jar, ghost, sch>>

\* Sessioner is called with some Options and some store Config.
OptGiven(n, g, l) ==
  /\ req.phase = "none"
  /\ req' = [phase |-> "given", IDLength |-> n, GCInterval |-> g, Lifetime |-> l,
             given |-> [IDLength |-> n, GCInterval |-> g, Lifetime |-> l]]
  /\ last' = NoOp
  /\ UNCHANGED optFrame

\* opt = parseOptions(opt)
OptParse ==
  /\ req.phase = "given"
  /\ req' = [req EXCEPT !.phase = "parsed",
                        !.IDLength = parseOptions_IDLength(@),
                        !.GCInterval = parseOptions_GCInterval(@)]
  /\ last' = [op |-> "parseOptions"]
  /\ UNCHANGED optFrame

\* store, err := opt.Initer(ctx, opt.Config)
OptIniter ==
  /\ req.phase = "parsed"
  /\ req' = [req EXCEPT !.phase = "effective", !.Lifetime = Initer_Lifetime(@)]
  /\ last' = [op |-> "Initer"]
  /\ UNCHANGED optFrame

NextOpt ==
  \/ \E n \in OptIDLengths, g \in OptGCIntervals, l \in OptLifetimes : OptGiven(n, g, l)
  \/ OptParse
  \/ OptIniter

SpecOpt == Init /\ [][NextOpt]_vars

\* ------------------------------------------------------------------ C30
\* C30: after option parsing the effective configuration has
\* IDLength >= 3, GCInterval >= 1 second and store Lifetime >= 1 second: an
\* IDLength below 3 becomes 16, a GCInterval below 1 second becomes 5
\* minutes, a Lifetime below 1 second becomes 3600 seconds, and a value at
\* or above its minimum is kept.
C30_EffectiveOptions ==
  req.phase = "effective" =>
    /\ req.IDLength >= 3
    /\ req.GCInterval >= TicksPerSecond
    /\ req.Lifetime >= TicksPerSecond
    /\ req.IDLength = IF req.given.IDLength < 3 THEN 16 ELSE req.given.IDLength
    /\ req.GCInterval = IF req.given.GCInterval < TicksPerSecond
                          THEN 5 * 60 * TicksPerSecond
                          ELSE req.given.GCInterval
    /\ req.Lifetime = IF req.given.Lifetime < TicksPerSecond
                        THEN 3600 * TicksPerSecond
                        ELSE req.given.Lifetime

\* Options just below the minimum of the GC interval and exactly at the
\* minimum of the ID length and of the lifetime have been parsed.
C30_Witness ==
  /\ req.phase = "effective"
  /\ req.given.IDLength = 3
  /\ req.given.GCInterval = TicksPerSecond - 1
  /\ req.given.Lifetime = TicksPerSecond
  /\ req.GCInterval = 5 * Minute

\* ================================================== a clock that goes back
\* The in-memory store with a nowFunc whose value may decrease from one call
\* to the next (memory_test.go moves it back between two Reads).
ClockSet(t) ==
  /\ backend = MemoryKind
  /\ t # now
  /\ now' = t
  /\ last' = NoOp
  /\ UNCHANGED <<backend, memVars, dbVars, issued, concVars, mgrVars>>

NextHeap ==
  \/ \E sid \in MemSIDs : Read(sid)
  \/ \E sid \in MemSIDs : Destroy(sid)
  \/ \E c \in BOOLEAN : GC(c)
  \/ \E t \in 0..MemMaxTime : ClockSet(t)

SpecHeap == InitConc /\ [][NextHeap]_vars

\* ------------------------------------------------------------------ C31
\* C31: after every completed operation on the in-memory store the heap
\* satisfies the min-heap order on the last-access time: no entry has an
\* earlier last-access time than its parent, so heap[0] is a least recently
\* accessed entry; for every sequence of Read, Destroy and GC, also when the
\* clock seen by successive Reads decreases.
C31_MinHeapOrder ==
  /\ \A i \in 2..Len(heap) :
       sess[heap[i \div 2]].lastAccessedAt <= sess[heap[i]].lastAccessedAt
  /\ \A i \in 1..Len(heap) :
       sess[heap[1]].lastAccessedAt <= sess[heap[i]].lastAccessedAt

\* The session a Read has just created is the root of a heap of three, with
\* an access time earlier than that of an older session: the clock went back.
C31_Witness ==
  /\ last.op = "Read"
  /\ last.pre = "absent"
  /\ Len(heap) = 3
  /\ heap[1] = last.ret
  /\ sess[heap[1]].lastAccessedAt < sess[heap[2]].lastAccessedAt
  /\ sess[heap[1]].lastAccessedAt < sess[heap[3]].lastAccessedAt

\* ================================================= a session kept alive
\* The in-memory store of lifetime EvLifetime under Reads and GC runs as
\* time passes.  fresh follows the sessions that have been read at intervals
\* shorter than the lifetime since they were created: the time of the last
\* Read, the time of the creation and the session object.
AgeMaxTime == 4

ageFrame == <<backend, rows, dirs, issued, concVars, mgrVars>>

AgeRead(sid) ==
  LET r == memoryStore_Read(EvStore, sid, now)
  IN /\ backend = MemoryKind
     /\ r.s.nObj <= MaxObjs
     /\ SetStore(r.s)
     /\ fresh' = IF sid \in DOMAIN fresh
                   THEN [fresh EXCEPT ![sid].at = now]
                   ELSE MapPut(fresh, sid, [at |-> now, born |-> now, obj |-> r.ret])
     /\ last' = [op |-> "Read", sid |-> sid, ret |-> r.ret]
     /\ UNCHANGED <<now, ageFrame>>

AgeGC ==
  LET s1 == memoryStore_GC(EvStore, now, FALSE)
  IN /\ backend = MemoryKind
     /\ SetStore(s1)
     /\ last' = [op |-> "GC", removed |-> Len(heap) - Len(s1.heap)]
     /\ UNCHANGED <<now, fresh, ageFrame>>

\* Time passes; a session not read for a lifetime is followed no longer.
AgeTick ==
  /\ backend = MemoryKind
  /\ now < AgeMaxTime
  /\ now' = now + 1
  /\ fresh' = [sid \in {x \in DOMAIN fresh : now + 1 < fresh[x].at + EvLifetime} |-> fresh[sid]]
  /\ last' = NoOp
  /\ UNCHANGED <<memVars, ageFrame>>

NextAge ==
  \/ \E sid \in MemSIDs : AgeRead(sid)
  \/ AgeGC
  \/ AgeTick

SpecAge == InitConc /\ [][NextAge]_vars

\* ------------------------------------------------------------------ C32
\* C32: a Read(id) at time t that finds an unexpired entry sets the entry's
\* last-access time to t and re-establishes its heap position, so the entry
\* survives every GC invoked before t + lifetime: a session read at
\* intervals shorter than the lifetime is never evicted, whatever its age.
C32_ReadKeepsAlive ==
  /\ \A sid \in DOMAIN fresh :
       /\ sid \in DOMAIN index
       /\ index[sid] = fresh[sid].obj
       /\ sess[index[sid]].lastAccessedAt = fresh[sid].at
  /\ \A sid \in DOMAIN index :
       ~Expired(EvStore, sid, now) =>
         LET r == memoryStore_Read(EvStore, sid, now)
         IN /\ r.ret = index[sid]
            /\ r.s.sess[r.ret].lastAccessedAt = now
            /\ heapFix(r.s, r.s.sess[r.ret].index) = r.s
            /\ \A g \in now..(now + EvLifetime - 1) :
                 /\ sid \in DOMAIN memoryStore_GC(r.s, g, FALSE).index
                 /\ memoryStore_GC(r.s, g, FALSE).index[sid] = r.ret

\* A GC has just evicted another session and left one that is older than
\* the lifetime and has been read again and again.
C32_Witness ==
  /\ last.op = "GC"
  /\ last.removed >= 1
  /\ \E sid \in DOMAIN fresh :
       /\ now - fresh[sid].born > EvLifetime
       /\ sid \in DOMAIN index
       /\ index[sid] = fresh[sid].obj

\* ============================================== what reaches the store
\* manager.load with whatever the client sends as its cookie: the values of
\* LoadCandidates and also "a.1" and "a/1".
ClientCandidates == LoadCandidates \cup {<<97, 46, 49>>, <<97, 47, 49>>}

NextClient ==
  \/ \E cand \in ClientCandidates, draw \in Draws, randOk \in BOOLEAN : Load(cand, draw, randOk)
  \/ \E sid \in MemSIDs : Destroy(sid)

SpecClient == InitConc /\ [][NextClient]_vars

\* ------------------------------------------------------------------ C33
\* ------------------------------------------------------------------ C33
\* C33: every identifier manager.load passes to Store.Read, and so the
\* identifier of every session it returns and of every entry of the store,
\* has exactly idLength characters (idLength >= 3), all in [0-9a-z],
\* whatever the client supplied: a candidate of the wrong length or with an
\* upper-case letter, '.' or '/' never reaches the store.
C33_OnlyValidIDsReachStore ==
  /\ IDLength >= 3
  /\ \A sid \in DOMAIN index :
       /\ Len(sid) = IDLength
       /\ \A i \in 1..Len(sid) : (48 <= sid[i] /\ sid[i] <= 57) \/ (97 <= sid[i] /\ sid[i] <= 122)
  /\ (last.op = "load" /\ last.err = Nil) =>
       LET sid == sess[last.ret].sid
       IN /\ Len(sid) = IDLength
          /\ \A i \in 1..Len(sid) : (48 <= sid[i] /\ sid[i] <= 57) \/ (97 <= sid[i] /\ sid[i] <= 122)
          /\ sid \in DOMAIN index
  /\ \A cand \in ClientCandidates \ {SidA, SidB, SidC} : cand \notin DOMAIN index

\* A request carrying "a/1" has just been given a session with a generated
\* identifier.
C33_Witness ==
  /\ last.op = "load"
  /\ last.err = Nil
  /\ last.cand = <<97, 47, 49>>
  /\ last.created
  /\ sess[last.ret].sid # last.cand
  /\ sess[last.ret].sid \in DOMAIN index

\* ------------------------------------------------------------------ C34
\* C34: when a handler calls Store.Destroy on the identifier of its own
\* session, the session stays destroyed once the request completes: after
\* the Save the middleware makes when the handler has returned, Exist(id)
\* is false, on every backend.
C34_DestroyedStaysDestroyed ==
  req.phase \in {"handler", "save"} =>
    LET id == req.sess.sid
        d == Store_Destroy(backend, DB, id, now, "ok")
        sv == Store_Save(backend, d.db, req.sess, now, "ok", "ok")
    IN (d.err = Nil /\ sv.err = Nil) => ~Store_Exist(backend, sv.db, id, now, "ok")

\* ------------------------------------------------------------------ C35
\* C35: after a handler has called RegenerateID and the middleware's Save
\* has run, the session has moved to the new identifier: a later request
\* carrying the new identifier is served the payload the record held, and
\* the store no longer serves that payload under the old identifier.
C35_RegenerateMovesSession ==
  \A draw \in MWDraws :
    (req.phase = "handler" /\ req.sess.data # EmptyData) =>
      LET old == req.sess.sid
          rg == BaseSession_RegenerateID(old, draw, TRUE)
          new == rg.todo[1].sid
          sv == Store_Save(backend, DB, [req.sess EXCEPT !.sid = new], now, "ok", "ok")
      IN (rg.err = Nil /\ new # old /\ sv.err = Nil) =>
           /\ Store_Read(backend, sv.db, new, now, "ok").sess.data = req.sess.data
           /\ Store_Read(backend, sv.db, old, now, "ok").sess.data # req.sess.data

\* ============================================ concurrent requests, flash
\* Requests carrying the same identifier are served by several goroutines
\* against the in-memory store.  Each runs the middleware up to the handler:
\* store.Read, sess.Get(flashKey), sess.Delete(flashKey); Get and Delete
\* take the session lock one after the other.  One handler sets a flash.
FlashServing == req.phase = "flash"

flashFrame == <<now, backend, dbVars, issued, lock, rd, gcpc, ctxDone, jar, ghost, sch>>

\* Sessioner(...) has returned the middleware.
FlashStart ==
  /\ req.phase = "none"
  /\ req' = [phase |-> "flash", obj |-> [p \in Procs |-> 0], set |-> FALSE, delivered |-> 0]
  /\ last' = NoOp
  /\ UNCHANGED <<memVars, pc, flashFrame>>

\* mgr.load: store.Read under the store lock.
FlashLoad(p) ==
  LET r == memoryStore_Read(Store, SidA, now)
  IN /\ FlashServing
     /\ pc[p] = "idle"
     /\ SetStore(r.s)
     /\ pc' = [pc EXCEPT ![p] = "get"]
     /\ req' = [req EXCEPT !.obj[p] = r.ret]
     /\ last' = NoOp
     /\ UNCHANGED flashFrame

\* flash := sess.Get(flashKey)
FlashGet(p) ==
  LET flash == BaseSession_Get(Store, req.obj[p], flashKey)
  IN /\ FlashServing
     /\ pc[p] = "get"
     /\ pc' = [pc EXCEPT ![p] = "delete"]
     /\ req' = [req EXCEPT !.delivered = IF flash # Nil THEN @ + 1 ELSE @]
     /\ last' = [op |-> "Get", p |-> p, flash |-> flash]
     /\ UNCHANGED <<memVars, flashFrame>>

\* sess.Delete(flashKey)
FlashDelete(p) ==
  /\ FlashServing
  /\ pc[p] = "delete"
  /\ SetStore(BaseSession_Delete(Store, req.obj[p], flashKey))
  /\ pc' = [pc EXCEPT ![p] = "handler"]
  /\ last' = NoOp
  /\ UNCHANGED <<req, flashFrame>>

\* The handler calls sess.SetFlash(v): once in all.
FlashSet(p, v) ==
  /\ FlashServing
  /\ pc[p] = "handler"
  /\ ~req.set
  /\ SetStore(BaseSession_SetFlash(Store, req.obj[p], v))
  /\ req' = [req EXCEPT !.set = TRUE]
  /\ last' = NoOp
  /\ UNCHANGED <<pc, flashFrame>>

\* The handler sets a value of its own.
FlashHandlerSet(p, k, v) ==
  /\ FlashServing
  /\ pc[p] = "handler"
  /\ sess[req.obj[p]].data[k] # v
  /\ SetStore(BaseSession_Set(Store, req.obj[p], k, v))
  /\ last' = NoOp
  /\ UNCHANGED <<pc, req, flashFrame>>

\* The handler returns and store.Save (a no-op) ends the request.
FlashEnd(p) ==
  /\ FlashServing
  /\ pc[p] = "handler"
  /\ SetStore(memoryStore_Save(Store, req.obj[p]))
  /\ pc' = [pc EXCEPT ![p] = "idle"]
  /\ req' = [req EXCEPT !.obj[p] = 0]
  /\ last' = NoOp
  /\ UNCHANGED flashFrame

NextFlash ==
  \/ FlashStart
  \/ \E p \in Procs : FlashLoad(p)
  \/ \E p \in Procs : FlashGet(p)
  \/ \E p \in Procs : FlashDelete(p)
  \/ \E p \in Procs, v \in Vals : FlashSet(p, v)
  \/ \E p \in Procs, k \in UserKeys, v \in Vals : FlashHandlerSet(p, k, v)
  \/ \E p \in Procs : FlashEnd(p)

SpecFlash == InitConc /\ [][NextFlash]_vars

\* ------------------------------------------------------------------ C36
\* C36: a flash value set once is delivered to at most one request, also
\* when several requests carrying the same identifier are handled
\* concurrently against the in-memory store: no two requests both obtain
\* the flash value from the middleware's Get-then-Delete of the flash key.
C36_FlashDeliveredOnce ==
  FlashServing => req.delivered <= 1

\* ------------------------------------------------------------------ C37
\* Identifiers shorter than the file store's minimum length of 3.
ShortSIDs == {<<>>, ShortSid, <<97, 98>>}

\* C37: in the file store every operation given an identifier shorter than
\* the minimum length 3 completes without a crash and leaves the files as
\* they were: Exist returns false, Read and Save return
\* ErrMinimumSIDLength, Destroy and Touch return nil.
C37_ShortIDsRejected ==
  backend = "file" =>
    \A sid \in ShortSIDs, io \in IOs :
      LET rd1 == fileStore_Read(DB, sid, now, io)
          sv == fileStore_Save(DB, NewBaseSession(sid), now, "ok", io)
          ds == fileStore_Destroy(DB, sid, now, io)
          tc == fileStore_Touch(DB, sid, now, io)
      IN /\ ~fileStore_Exist(DB, sid, now, io)
         /\ rd1.err = "ErrMinimumSIDLength" /\ rd1.db = DB
         /\ sv.err = "ErrMinimumSIDLength" /\ sv.db = DB
         /\ ds.err = Nil /\ ds.db = DB
         /\ tc.err = Nil /\ tc.db = DB

\* ======================================================================
\* The locks of the in-memory store and of its records.  memoryStore.lock
\* guards heap and index, memorySession.lock guards an entry's last-access
\* time, BaseSession.lock guards a record's data.  Every call is the
\* sequence of Lock, RLock, Unlock and RUnlock calls it makes; a call
\* changes the store when it releases the lock that guards what it changes.
\*
\* lock maps a lock to its writer and readers, pc[p] is "idle" or "call",
\* rd[p] is the call of process p: its arguments, the clock value it read
\* when it entered the store, and the lock calls it has still to make.
\* ======================================================================
LockMaxObjs == 2
LockMaxTime == 1

StoreLock == <<"store", 0>>
SessLock(o) == <<"session", o>>
DataLock(o) == <<"data", o>>
LockIDs ==
  {StoreLock} \cup {SessLock(o) : o \in 1..LockMaxObjs} \cup {DataLock(o) : o \in 1..LockMaxObjs}

LockSIDs == {SidA, SidB}

Instr(a, l) == [act |-> a, l |-> l]

NoCall == [op |-> "none", sid |-> <<>>, obj |-> 0, k |-> Nil, v |-> Nil, t |-> 0, todo |-> <<>>]

StoreCall(op, sid) == [NoCall EXCEPT !.op = op, !.sid = sid]
SessionCall(op, o, k, v) == [NoCall EXCEPT !.op = op, !.obj = o, !.k = k, !.v = v]

\* memory.go lines 33-37 without the deferred RUnlock.
LastAccessedAt_locks_noUnlock(o) == <<Instr("RLock", SessLock(o))>>

\* memory.go lines 33-37.
LastAccessedAt_locks(o) ==
  <<Instr("RLock", SessLock(o)), Instr("RUnlock", SessLock(o))>>

\* memory.go lines 39-43.
SetLastAccessedAt_locks(o) ==
  <<Instr("Lock", SessLock(o)), Instr("Unlock", SessLock(o))>>

\* Less reads the last-access time of two entries, one after the other.
\* heap.Fix, heap.Remove and heap.Push call Less only on a heap of two or
\* more entries; they are taken to read every entry once.
RECURSIVE Less_locks(_, _)
Less_locks(hp, i) ==
  IF i > Len(hp) THEN <<>> ELSE LastAccessedAt_locks(hp[i]) \o Less_locks(hp, i + 1)

heap_locks(hp) == IF Len(hp) < 2 THEN <<>> ELSE Less_locks(hp, 1)

\* memory.go lines 141-143: the new session is object nObj + 1.
ReadCreate_locks(s) ==
  SetLastAccessedAt_locks(s.nObj + 1) \o heap_locks(Append(s.heap, s.nObj + 1))

\* The session locks Read takes while it holds the store lock.
Read_locks(s, sid, t) ==
  IF sid \in DOMAIN s.index
    THEN LET o == s.index[sid]
         IN LastAccessedAt_locks(o) \o
            (IF t < s.sess[o].lastAccessedAt + s.lifetime
               THEN SetLastAccessedAt_locks(o) \o heap_locks(s.heap)
               ELSE heap_locks(s.heap) \o ReadCreate_locks(heapRemove(s, s.sess[o].index)))
    ELSE ReadCreate_locks(s)

Destroy_locks(s, sid) ==
  IF sid \in DOMAIN s.index THEN heap_locks(s.heap) ELSE <<>>

\* One iteration of the GC loop.
GCBody_locks(s, t) ==
  IF StoreLen(s) = 0
    THEN <<>>
    ELSE LET o == s.heap[1]
         IN LastAccessedAt_locks(o) \o
            (IF t < s.sess[o].lastAccessedAt + s.lifetime THEN <<>> ELSE heap_locks(s.heap))

\* What a call does between taking and releasing the store lock.
Body_locks(c, s, t) ==
  CASE c.op = "Read" -> Read_locks(s, c.sid, t)
    [] c.op = "Destroy" -> Destroy_locks(s, c.sid)
    [] c.op = "GC" -> GCBody_locks(s, t)
    [] OTHER -> <<>>

\* The first lock call of a call; Save makes none.
Entry_locks(c) ==
  CASE c.op \in {"Read", "Destroy", "GC"} -> <<Instr("Lock", StoreLock)>>
    [] c.op = "Exist" -> <<Instr("RLock", StoreLock)>>
    [] c.op = "Get" -> <<Instr("RLock", DataLock(c.obj)), Instr("RUnlock", DataLock(c.obj))>>
    [] c.op \in {"Set", "Delete", "Flush"} ->
         <<Instr("Lock", DataLock(c.obj)), Instr("Unlock", DataLock(c.obj))>>
    [] OTHER -> <<>>

\* What the call has done to the store when it releases lock l.
Effect(c, l, s) ==
  IF l = StoreLock
    THEN CASE c.op = "Read" -> memoryStore_Read(s, c.sid, c.t).s
           [] c.op = "Destroy" -> memoryStore_Destroy(s, c.sid)
           [] c.op = "GC" -> memoryStore_GCBody(s, c.t).s
           [] OTHER -> s
    ELSE IF l = DataLock(c.obj)
      THEN CASE c.op = "Set" -> BaseSession_Set(s, c.obj, c.k, c.v)
             [] c.op = "Delete" -> BaseSession_Delete(s, c.obj, c.k)
             [] c.op = "Flush" -> BaseSession_Flush(s, c.obj)
             [] OTHER -> s
      ELSE s

InCall(p) == pc[p] = "call"
NextInstr(p) == rd[p].todo[1]
Requests(p, a, l) ==
  InCall(p) /\ rd[p].todo # <<>> /\ NextInstr(p).act = a /\ NextInstr(p).l = l
Holds(p, l) == lock[l].w = p \/ p \in lock[l].r

\* sync.RWMutex: Lock waits for the writer and the readers to leave; RLock
\* waits for the writer and for every goroutine that is waiting in Lock.
CanLock(l) == lock[l].w = 0 /\ lock[l].r = {}
CanRLock(p, l) ==
  lock[l].w = 0 /\ \A q \in Procs \ {p} : ~Requests(q, "Lock", l)

\* The processes that have to move before p can.
WaitsFor(p) ==
  IF ~InCall(p) \/ rd[p].todo = <<>> THEN {}
  ELSE LET l == NextInstr(p).l
       IN CASE NextInstr(p).act = "Lock" /\ ~CanLock(l) ->
                 {q \in Procs : Holds(q, l)}
            [] NextInstr(p).act = "RLock" /\ ~CanRLock(p, l) ->
                 {q \in Procs : lock[l].w = q} \cup
                 {q \in Procs \ {p} : Requests(q, "Lock", l)}
            [] OTHER -> {}

Waiting(p) == WaitsFor(p) # {}

RECURSIVE WaitClosure(_, _)
WaitClosure(S, n) ==
  IF n = 0 THEN S ELSE WaitClosure(S \cup UNION {WaitsFor(q) : q \in S}, n - 1)

lockFrame == <<backend, rows, dirs, fresh, issued, last, gcpc, ctxDone, req, jar, ghost, sch>>

InitLock ==
  /\ now = 0
  /\ backend = MemoryKind
  /\ heap = <<>>
  /\ index = <<>>
  /\ sess = <<>>
  /\ nObj = 0
  /\ rows = <<>>
  /\ dirs = {}
  /\ fresh = <<>>
  /\ issued = <<>>
  /\ last = NoOp
  /\ lock = [l \in LockIDs |-> [w |-> 0, r |-> {}]]
  /\ pc = [p \in Procs |-> "idle"]
  /\ rd = [p \in Procs |-> NoCall]
  /\ gcpc = "idle"
  /\ ctxDone = FALSE
  /\ req = NoReq
  /\ jar = {}
  /\ ghost = <<>>
  /\ sch = NoSched

\* The calls a goroutine can make: those of the store, and those of every
\* record a Read has returned.  Every Read in progress may allocate one.
LockCalls ==
  {StoreCall(op, sid) : op \in {"Exist", "Destroy"}, sid \in LockSIDs}
  \cup {StoreCall("Read", sid) : sid \in {x \in LockSIDs :
          nObj + Cardinality({q \in Procs : InCall(q) /\ rd[q].op = "Read"}) < LockMaxObjs}}
  \cup {StoreCall("GC", <<>>)}
  \cup {SessionCall("Save", o, Nil, Nil) : o \in 1..nObj}
  \cup {SessionCall(op, o, Nil, Nil) : op \in {"Get", "Flush"}, o \in 1..nObj}
  \cup {SessionCall("Delete", o, k, Nil) : o \in 1..nObj, k \in UserKeys}
  \cup {SessionCall("Set", o, k, v) : o \in 1..nObj, k \in UserKeys, v \in Vals}

\* A goroutine that is not inside a call makes one.  Idle goroutines are
\* interchangeable: the caller is the first idle one.
LockCall(p, c) ==
  /\ pc[p] = "idle"
  /\ \A q \in Procs : q < p => pc[q] # "idle"
  /\ c \in LockCalls
  /\ pc' = [pc EXCEPT ![p] = "call"]
  /\ rd' = [rd EXCEPT ![p] = [c EXCEPT !.todo = Entry_locks(c)]]
  /\ UNCHANGED <<now, memVars, lock, lockFrame>>

\* The call returns once it has made its last lock call.
Returned(p, todo) ==
  IF todo = <<>>
    THEN /\ pc' = [pc EXCEPT ![p] = "idle"]
         /\ rd' = [rd EXCEPT ![p] = NoCall]
    ELSE /\ pc' = pc
         /\ rd' = [rd EXCEPT ![p].todo = todo]

\* Lock or RLock is granted.  With the store lock the call reads the clock
\* and goes on to the session locks its critical section takes.
Acquire(p) ==
  LET l == NextInstr(p).l
      w == NextInstr(p).act = "Lock"
  IN /\ InCall(p)
     /\ rd[p].todo # <<>>
     /\ NextInstr(p).act \in {"Lock", "RLock"}
     /\ IF w THEN CanLock(l) ELSE CanRLock(p, l)
     /\ lock' = [lock EXCEPT ![l] = IF w THEN [@ EXCEPT !.w = p]
                                         ELSE [@ EXCEPT !.r = @ \cup {p}]]
     /\ pc' = pc
     /\ rd' = [rd EXCEPT ![p] =
                 IF l = StoreLock
                   THEN [rd[p] EXCEPT !.t = now,
                                      !.todo = Body_locks(rd[p], Store, now) \o
                                               <<Instr(IF w THEN "Unlock" ELSE "RUnlock", l)>>]
                   ELSE [rd[p] EXCEPT !.todo = Tail(rd[p].todo)]]
     /\ UNCHANGED <<now, memVars, lockFrame>>

\* Unlock or RUnlock.  The GC loop takes the store lock again unless the
\* iteration found nothing to remove.
Release(p) ==
  LET l == NextInstr(p).l
      c == rd[p]
      again == /\ c.op = "GC"
               /\ l = StoreLock
               /\ ~memoryStore_GCBody(Store, c.t).done
  IN /\ InCall(p)
     /\ rd[p].todo # <<>>
     /\ NextInstr(p).act \in {"Unlock", "RUnlock"}
     /\ lock' = [lock EXCEPT ![l] = IF NextInstr(p).act = "Unlock"
                                         THEN [@ EXCEPT !.w = 0]
                                         ELSE [@ EXCEPT !.r = @ \ {p}]]
     /\ SetStore(Effect(c, l, Store))
     /\ Returned(p, IF again THEN Entry_locks(c) ELSE Tail(c.todo))
     /\ UNCHANGED <<now, lockFrame>>

\* Save takes no lock: memory.go lines 160-162.
SaveReturn(p) ==
  /\ InCall(p)
  /\ rd[p].todo = <<>>
  /\ SetStore(memoryStore_Save(Store, rd[p].obj))
  /\ Returned(p, <<>>)
  /\ UNCHANGED <<now, lock, lockFrame>>

TickLock ==
  /\ now < LockMaxTime
  /\ now' = now + 1
  /\ UNCHANGED <<memVars, lock, pc, rd, lockFrame>>

NextLock ==
  \/ \E p \in Procs, c \in LockCalls : LockCall(p, c)
  \/ \E p \in Procs : Acquire(p)
  \/ \E p \in Procs : Release(p)
  \/ \E p \in Procs : SaveReturn(p)
  \/ TickLock

SpecLock == InitLock /\ [][NextLock]_vars

\* ------------------------------------------------------------------ C38
\* C38: no interleaving of concurrent Exist, Read, Destroy, Save and GC
\* calls on the in-memory store with concurrent Get, Set, Delete and Flush
\* calls on its records deadlocks.  The store lock is never requested while
\* a lock of a session is held, no call waits, directly or through other
\* calls, for itself, and while a call is in progress some call in
\* progress can take its next step.
C38_NoDeadlock ==
  /\ \A p \in Procs :
       (Requests(p, "Lock", StoreLock) \/ Requests(p, "RLock", StoreLock)) =>
         \A o \in 1..LockMaxObjs : ~Holds(p, SessLock(o)) /\ ~Holds(p, DataLock(o))
  /\ \A p \in Procs : p \notin WaitClosure(WaitsFor(p), NumProcs)
  /\ (\E p \in Procs : InCall(p)) => \E p \in Procs : InCall(p) /\ ~Waiting(p)

\* A Read holds the store lock and the lock of a session while another
\* call waits for the store lock.
C38_Witness ==
  \E p \in Procs, q \in Procs, o \in 1..LockMaxObjs :
    /\ p # q
    /\ lock[StoreLock].w = p
    /\ rd[p].op = "Read"
    /\ Holds(p, SessLock(o))
    /\ Waiting(q)
    /\ NextInstr(q).l = StoreLock

\* ======================================================================
\* The records by themselves: type.go lines 33-100.  A record is created
\* by NewBaseSession or NewBaseSessionWithData and then used through its
\* methods in any order.  last holds the latest call: the record obj, the
\* changed flag before the call (was), whether the call left the data as
\* it was (same), and what a reading method returned (ret).
\* ======================================================================
RecMaxObjs == 2

BaseSession_ID(s, o) == s.sess[o].sid
BaseSession_Encode(s, o) == GobEncoder(s.sess[o].data)
BaseSession_HasChanged(s, o) == s.sess[o].changed

recFrame == <<now, backend, heap, index, dbVars, issued, concVars, mgrVars>>

RecNew(r) ==
  /\ nObj < RecMaxObjs
  /\ sess' = MapPut(sess, nObj + 1, r)
  /\ nObj' = nObj + 1
  /\ last' = [op |-> "New", obj |-> nObj + 1, was |-> FALSE, same |-> TRUE, ret |-> Nil]
  /\ UNCHANGED recFrame

\* A method that writes: the store value s1 is the record after the call.
RecWrite(op, o, s1) ==
  /\ o \in DOMAIN sess
  /\ sess' = s1.sess
  /\ last' = [op |-> op, obj |-> o, was |-> sess[o].changed,
              same |-> s1.sess[o].data = sess[o].data, ret |-> Nil]
  /\ UNCHANGED <<nObj, recFrame>>

\* A method that reads: it takes the read lock and returns ret.
RecRead(op, o, ret) ==
  /\ o \in DOMAIN sess
  /\ last' = [op |-> op, obj |-> o, was |-> sess[o].changed, same |-> TRUE, ret |-> ret]
  /\ UNCHANGED <<sess, nObj, recFrame>>

RecSet(o, k, v) == o \in DOMAIN sess /\ RecWrite("Set", o, BaseSession_Set(Store, o, k, v))
RecSetFlash(o, v) == o \in DOMAIN sess /\ RecWrite("SetFlash", o, BaseSession_SetFlash(Store, o, v))
RecDelete(o, k) == o \in DOMAIN sess /\ RecWrite("Delete", o, BaseSession_Delete(Store, o, k))
RecFlush(o) == o \in DOMAIN sess /\ RecWrite("Flush", o, BaseSession_Flush(Store, o))
RecID(o) == o \in DOMAIN sess /\ RecRead("ID", o, BaseSession_ID(Store, o))
RecGet(o, k) == o \in DOMAIN sess /\ RecRead("Get", o, BaseSession_Get(Store, o, k))
RecEncode(o) == o \in DOMAIN sess /\ RecRead("Encode", o, BaseSession_Encode(Store, o))
RecHasChanged(o) == o \in DOMAIN sess /\ RecRead("HasChanged", o, BaseSession_HasChanged(Store, o))

NextRec ==
  \/ \E sid \in LockSIDs : RecNew(NewBaseSession(sid))
  \/ \E sid \in LockSIDs, d \in DataVals : RecNew(NewBaseSessionWithData(sid, d))
  \/ \E o \in 1..RecMaxObjs, k \in UserKeys, v \in Vals : RecSet(o, k, v)
  \/ \E o \in 1..RecMaxObjs, v \in Vals : RecSetFlash(o, v)
  \/ \E o \in 1..RecMaxObjs, k \in Keys : RecDelete(o, k)
  \/ \E o \in 1..RecMaxObjs : RecFlush(o)
  \/ \E o \in 1..RecMaxObjs : RecID(o)
  \/ \E o \in 1..RecMaxObjs, k \in Keys : RecGet(o, k)
  \/ \E o \in 1..RecMaxObjs : RecEncode(o)
  \/ \E o \in 1..RecMaxObjs : RecHasChanged(o)

SpecRec == InitConc /\ [][NextRec]_vars

\* ------------------------------------------------------------------ C39
\* C39: a record's changed flag is false when the record is created and
\* true after a Set, SetFlash, Delete or Flush, also one that leaves the
\* data equal; once true it stays true, and ID, Get, Encode and HasChanged
\* leave it as it was.
C39_ChangedFlag ==
  [][/\ \A o \in DOMAIN sess' \ DOMAIN sess : ~sess'[o].changed
     /\ \A o \in DOMAIN sess : sess[o].changed => sess'[o].changed
     /\ last'.op \in {"Set", "SetFlash", "Delete", "Flush"} => sess'[last'.obj].changed
     /\ last'.op \in {"ID", "Get", "Encode", "HasChanged"} =>
          sess'[last'.obj].changed = sess[last'.obj].changed]_vars

\* A Delete of an absent key has just set the flag of a record that had
\* not changed, and left its data as it was.
C39_Witness ==
  /\ last.op = "Delete"
  /\ ~last.was
  /\ last.same
  /\ sess[last.obj].changed

\* ======================================================================
\* Save on the in-memory store, called with any record a Read has returned:
\* the records 1..nObj, of which sess keeps those still in the store.
\* ======================================================================
SaveAny(o) ==
  /\ o \in 1..nObj
  /\ SetStore(memoryStore_Save(Store, o))
  /\ last' = [op |-> "Save", obj |-> o, inStore |-> o \in DOMAIN sess]
  /\ UNCHANGED <<now, backend, dbVars, issued, concVars, mgrVars>>

NextSave ==
  \/ \E sid \in MemSIDs : Read(sid)
  \/ \E sid \in MemSIDs : Destroy(sid)
  \/ \E c \in BOOLEAN : GC(c)
  \/ \E o \in 1..MaxObjs, k \in UserKeys, v \in Vals : SessionSet(o, k, v)
  \/ \E o \in 1..MaxObjs : SaveAny(o)
  \/ Tick

SpecSave == InitConc /\ [][NextSave]_vars

\* ------------------------------------------------------------------ C40
\* C40: Save on the in-memory store changes nothing: heap, index, the
\* last-access time of every entry and the payload of every record are the
\* same before and after the call, for every record passed, also one that
\* is no longer in the store.
C40_SaveChangesNothing ==
  \A o \in 1..nObj :
    LET s1 == memoryStore_Save(Store, o)
    IN /\ s1.heap = heap
       /\ s1.index = index
       /\ DOMAIN s1.sess = DOMAIN sess
       /\ \A x \in DOMAIN sess :
            /\ s1.sess[x].lastAccessedAt = sess[x].lastAccessedAt
            /\ s1.sess[x].data = sess[x].data

\* Save has just been called with a record that is no longer in the store,
\* while the store holds an entry with data.
C40_Witness ==
  /\ last.op = "Save"
  /\ ~last.inStore
  /\ \E x \in DOMAIN sess : sess[x].data # EmptyData

====
